---- MODULE Spec2Model ----
(***************************************************************************)
(* Model of the softlance dot-path document store: the file backend        *)
(* (JsonDatabase) and the remote backend (MongoDatabase).                  *)
(*                                                                         *)
(* A JavaScript value is a tagged record.  Field names, key segments and   *)
(* string values are sequences of one-character strings, so that           *)
(* key.split(".") is computed rather than assumed.  An in-memory Array     *)
(* carries its elements (a hole is Undef) and its non-index properties;    *)
(* both persistence media drop the latter and store a hole as null.        *)
(* Properties inherited from prototypes ("length", "constructor", ...)     *)
(* are outside the key alphabet of the model.  The remote store is         *)
(* modelled as a collection that persists exactly what save() is handed.   *)
(***************************************************************************)
EXTENDS Integers, Sequences, FiniteSets, TLC

VARIABLES backend, jfile, mcoll, conn, tasks, last,
          now, ipStore, served,
          operands, result,
          manageFile, requireDefined, position, app, logs, settled

\* the rate limiter's clock, its module-level store and the answers given
web == <<now, ipStore, served>>
\* the operands and the result of a comparison
compare == <<operands, result>>
\* the route loader: the manifest file, whether the build defines require,
\* the loop's position, the routes mounted on the application, the log
\* lines written and how the call has ended
loader == <<manageFile, requireDefined, position, app, logs, settled>>

vars == <<backend, jfile, mcoll, conn, tasks, last, web, compare, loader>>

(***************************************************************************)
(* Bounds                                                                  *)
(***************************************************************************)
MaxNum == 1
MaxArrLen == 2

(***************************************************************************)
(* JavaScript values                                                       *)
(***************************************************************************)
Undef == [t |-> "undef"]
Null == [t |-> "null"]
NaN == [t |-> "nan"]
Num(n) == [t |-> "num", n |-> n]
Str(s) == [t |-> "str", s |-> s]
Bool(b) == [t |-> "bool", b |-> b]
Obj(f) == [t |-> "obj", f |-> f]
Arr(e, x) == [t |-> "arr", e |-> e, x |-> x]

NoFields == [k \in {} |-> Undef]
EmptyObj == Obj(NoFields)
EmptyArr == Arr(<<>>, NoFields)

TypeOf(v) ==
  CASE v.t = "undef" -> "undefined"
    [] v.t \in {"null", "obj", "arr"} -> "object"
    [] v.t \in {"num", "nan"} -> "number"
    [] v.t = "str" -> "string"
    [] v.t = "bool" -> "boolean"

\* !v
Falsy(v) ==
  \/ v.t \in {"undef", "null", "nan"}
  \/ v.t = "num" /\ v.n = 0
  \/ v.t = "str" /\ v.s = <<>>
  \/ v.t = "bool" /\ ~v.b

IsArray(v) == v.t = "arr"

\* the canonical array indices "0", "1", ... that the model's keys and arrays use
Digits == <<"0", "1", "2", "3">>
IsIndex(seg) == Len(seg) = 1 /\ \E i \in DOMAIN Digits : Digits[i] = seg[1]
IndexOf(seg) == (CHOOSE i \in DOMAIN Digits : Digits[i] = seg[1]) - 1

\* Object.keys(v), for an Object or Array v
OwnKeys(v) ==
  CASE v.t = "obj" -> DOMAIN v.f
    [] v.t = "arr" ->
         {<<Digits[i]>> : i \in {j \in 1..Len(v.e) : v.e[j] # Undef}} \cup DOMAIN v.x
    [] OTHER -> {}

\* a === b; an Object or Array read from the medium is never the very
\* object the caller passed in
StrictEq(a, b) ==
  IF a.t \in {"obj", "arr"} \/ b.t \in {"obj", "arr"} THEN FALSE
  ELSE a.t # "nan" /\ a = b

\* v[k] for a value v that is neither null nor undefined
PropGet(v, k) ==
  CASE v.t = "obj" -> IF k \in DOMAIN v.f THEN v.f[k] ELSE Undef
    [] v.t = "arr" ->
         IF IsIndex(k)
         THEN IF IndexOf(k) < Len(v.e) THEN v.e[IndexOf(k) + 1] ELSE Undef
         ELSE IF k \in DOMAIN v.x THEN v.x[k] ELSE Undef
    [] v.t = "str" ->
         IF IsIndex(k) /\ IndexOf(k) < Len(v.s)
         THEN Str(<<v.s[IndexOf(k) + 1]>>) ELSE Undef
    [] OTHER -> Undef

\* k in v, for an Object or Array v
HasProp(v, k) ==
  CASE v.t = "obj" -> k \in DOMAIN v.f
    [] v.t = "arr" ->
         IF IsIndex(k)
         THEN IndexOf(k) < Len(v.e) /\ v.e[IndexOf(k) + 1] # Undef
         ELSE k \in DOMAIN v.x
    [] OTHER -> FALSE

\* v[k] = w, for an Object or Array v
PropSet(v, k, w) ==
  CASE v.t = "obj" -> Obj((k :> w) @@ v.f)
    [] v.t = "arr" ->
         IF IsIndex(k)
         THEN LET n == IF IndexOf(k) < Len(v.e) THEN Len(v.e) ELSE IndexOf(k) + 1
              IN Arr([i \in 1..n |->
                        IF i = IndexOf(k) + 1 THEN w
                        ELSE IF i <= Len(v.e) THEN v.e[i] ELSE Undef], v.x)
         ELSE Arr(v.e, (k :> w) @@ v.x)

\* delete v[k], for an Object or Array v
PropDelete(v, k) ==
  CASE v.t = "obj" -> Obj([j \in DOMAIN v.f \ {k} |-> v.f[j]])
    [] v.t = "arr" ->
         IF IsIndex(k)
         THEN Arr([i \in 1..Len(v.e) |->
                     IF i = IndexOf(k) + 1 THEN Undef ELSE v.e[i]], v.x)
         ELSE Arr(v.e, [j \in DOMAIN v.x \ {k} |-> v.x[j]])

(***************************************************************************)
(* Keys                                                                    *)
(***************************************************************************)
RECURSIVE DotAt(_, _)
\* index of the first "." of s at or after position i, 0 when there is none
DotAt(s, i) ==
  IF i > Len(s) THEN 0 ELSE IF s[i] = "." THEN i ELSE DotAt(s, i + 1)

RECURSIVE Split(_)
\* key.split(".")
Split(s) ==
  LET d == DotAt(s, 1)
  IN IF d = 0 THEN <<s>>
     ELSE <<SubSeq(s, 1, d - 1)>> \o Split(SubSeq(s, d + 1, Len(s)))

\* !key || typeof key !== "string"
InvalidKey(key) == key = <<>>

(***************************************************************************)
(* File backend: the persisted medium                                      *)
(***************************************************************************)
RECURSIVE JsonRoundTrip(_)
\* JSON.parse(JSON.stringify(v)): NaN and holes become null, undefined
\* fields and non-index array properties are not written
JsonRoundTrip(v) ==
  CASE v.t = "nan" -> Null
    [] v.t = "obj" ->
         Obj([k \in {j \in DOMAIN v.f : v.f[j] # Undef} |-> JsonRoundTrip(v.f[k])])
    [] v.t = "arr" ->
         Arr([i \in 1..Len(v.e) |->
                IF v.e[i] = Undef THEN Null ELSE JsonRoundTrip(v.e[i])], NoFields)
    [] OTHER -> v

\* what a call leaves behind: the medium after it (st), whether it wrote to the
\* medium (w) and how it ended (out): "done", or the warning it logged
Ret(st, w, out) == [st |-> st, w |-> w, out |-> out]

\* a file that is missing, or whose content JSON.parse rejects
Unreadable == [t |-> "unreadable"]

\* ReadDatabase, but answering with the document the instance started from
ReadDatabaseInitial(file) == EmptyObj

\* the document parsed from the file; {} when reading or parsing throws
ReadDatabase(file) == IF file = Unreadable THEN EmptyObj ELSE file

\* the file after data has been written to it
WriteDatabase(data) == JsonRoundTrip(data)

RECURSIVE JsonSetPathFreshParents(_, _, _)
\* JsonSetPath, but starting every intermediate container afresh
JsonSetPathFreshParents(cur, keys, value) ==
  IF Len(keys) = 1 THEN PropSet(cur, keys[1], value)
  ELSE PropSet(cur, keys[1],
               JsonSetPathFreshParents(EmptyObj, Tail(keys), value))

RECURSIVE JsonSetPath(_, _, _)
\* the loop of set/add/subtract/push that walks to the parent of the final
\* segment, replacing every falsy or non-object intermediate by {}, and the
\* assignment to the final segment
JsonSetPath(cur, keys, value) ==
  IF Len(keys) = 1 THEN PropSet(cur, keys[1], value)
  ELSE LET c == PropGet(cur, keys[1])
           child == IF Falsy(c) \/ TypeOf(c) # "object" THEN EmptyObj ELSE c
       IN PropSet(cur, keys[1], JsonSetPath(child, Tail(keys), value))

RECURSIVE JsonFinalValue(_, _)
\* current[finalKey] after the same walk
JsonFinalValue(cur, keys) ==
  IF Len(keys) = 1 THEN PropGet(cur, keys[1])
  ELSE LET c == PropGet(cur, keys[1])
           child == IF Falsy(c) \/ TypeOf(c) # "object" THEN EmptyObj ELSE c
       IN JsonFinalValue(child, Tail(keys))

\* JsonSet, but without the validation of the key
JsonSetNoKeyCheck(file, key, value) ==
  IF value = Undef THEN Ret(file, FALSE, "invalid value")
  ELSE Ret(WriteDatabase(JsonSetPath(ReadDatabase(file), Split(key), value)),
           TRUE, "done")

\* JsonSet, but leaving a file alone that it could not read
JsonSetKeepsUnreadable(file, key, value) ==
  IF InvalidKey(key) THEN Ret(file, FALSE, "invalid key")
  ELSE IF value = Undef THEN Ret(file, FALSE, "invalid value")
  ELSE IF file = Unreadable THEN Ret(file, FALSE, "failed")
  ELSE Ret(WriteDatabase(JsonSetPath(ReadDatabase(file), Split(key), value)),
           TRUE, "done")

JsonSet(file, key, value) ==
  IF InvalidKey(key) THEN Ret(file, FALSE, "invalid key")
  ELSE IF value = Undef THEN Ret(file, FALSE, "invalid value")
  ELSE Ret(WriteDatabase(JsonSetPath(ReadDatabase(file), Split(key), value)),
           TRUE, "done")

RECURSIVE JsonGetLoop(_, _)
JsonGetLoop(cur, keys) ==
  IF keys = <<>> THEN cur
  ELSE IF cur.t \in {"null", "undef"} THEN Undef   \* TypeError, caught
  ELSE IF PropGet(cur, keys[1]) = Undef THEN Undef
  ELSE JsonGetLoop(PropGet(cur, keys[1]), Tail(keys))

JsonGet(file, key) ==
  IF InvalidKey(key) THEN Undef
  ELSE JsonGetLoop(ReadDatabase(file), Split(key))

JsonGetAll(file) == ReadDatabase(file)

RECURSIVE JsonHasLoop(_, _)
JsonHasLoop(cur, keys) ==
  IF keys = <<>> THEN TRUE
  ELSE IF TypeOf(cur) # "object" \/ cur = Null THEN FALSE
  ELSE IF ~HasProp(cur, keys[1]) THEN FALSE
  ELSE JsonHasLoop(PropGet(cur, keys[1]), Tail(keys))

JsonHas(file, key) ==
  IF InvalidKey(key) THEN FALSE
  ELSE JsonHasLoop(ReadDatabase(file), Split(key))

\* a + b on JavaScript numbers
NumAdd(a, b) == IF a.t = "nan" \/ b.t = "nan" THEN NaN ELSE Num(a.n + b.n)
\* a - b on JavaScript numbers
NumSub(a, b) == IF a.t = "nan" \/ b.t = "nan" THEN NaN ELSE Num(a.n - b.n)

\* JsonAdd, but storing the argument over a number that is already there
JsonAddOverwrites(file, key, value) ==
  IF InvalidKey(key) THEN Ret(file, FALSE, "invalid key")
  ELSE IF TypeOf(value) # "number" THEN Ret(file, FALSE, "invalid value")
  ELSE LET data == ReadDatabase(file)
           keys == Split(key)
           currentValue == JsonFinalValue(data, keys)
       IN IF currentValue # Undef /\ TypeOf(currentValue) # "number"
          THEN Ret(file, FALSE, "not a number")
          ELSE Ret(WriteDatabase(JsonSetPath(data, keys, NumAdd(Num(0), value))),
                   TRUE, "done")

JsonAdd(file, key, value) ==
  IF InvalidKey(key) THEN Ret(file, FALSE, "invalid key")
  ELSE IF TypeOf(value) # "number" THEN Ret(file, FALSE, "invalid value")
  ELSE LET data == ReadDatabase(file)
           keys == Split(key)
           currentValue == JsonFinalValue(data, keys)
       IN IF currentValue = Undef
          THEN Ret(WriteDatabase(JsonSetPath(data, keys, NumAdd(Num(0), value))),
                   TRUE, "done")
          ELSE IF TypeOf(currentValue) # "number"
          THEN Ret(file, FALSE, "not a number")
          ELSE Ret(WriteDatabase(JsonSetPath(data, keys, NumAdd(currentValue, value))),
                   TRUE, "done")

JsonSubtract(file, key, value) ==
  IF InvalidKey(key) THEN Ret(file, FALSE, "invalid key")
  ELSE IF TypeOf(value) # "number" THEN Ret(file, FALSE, "invalid value")
  ELSE LET data == ReadDatabase(file)
           keys == Split(key)
           currentValue == JsonFinalValue(data, keys)
       IN IF currentValue = Undef
          THEN Ret(WriteDatabase(JsonSetPath(data, keys, NumSub(Num(0), value))),
                   TRUE, "done")
          ELSE IF TypeOf(currentValue) # "number"
          THEN Ret(file, FALSE, "not a number")
          ELSE Ret(WriteDatabase(JsonSetPath(data, keys, NumSub(currentValue, value))),
                   TRUE, "done")

RECURSIVE JsonDeletePathClearsParent(_, _)
\* JsonDeletePath, but emptying the parent instead of removing one field
JsonDeletePathClearsParent(cur, keys) ==
  IF Len(keys) = 1
  THEN IF HasProp(cur, keys[1])
       THEN [ok |-> TRUE, v |-> EmptyObj]
       ELSE [ok |-> FALSE, v |-> cur]
  ELSE LET c == PropGet(cur, keys[1])
       IN IF Falsy(c) \/ TypeOf(c) # "object" THEN [ok |-> FALSE, v |-> cur]
          ELSE LET r == JsonDeletePathClearsParent(c, Tail(keys))
               IN [ok |-> r.ok, v |-> PropSet(cur, keys[1], r.v)]

RECURSIVE JsonDeletePath(_, _)
\* the walk of delete: ok is FALSE when the key "does not exist"
JsonDeletePath(cur, keys) ==
  IF Len(keys) = 1
  THEN IF HasProp(cur, keys[1])
       THEN [ok |-> TRUE, v |-> PropDelete(cur, keys[1])]
       ELSE [ok |-> FALSE, v |-> cur]
  ELSE LET c == PropGet(cur, keys[1])
       IN IF Falsy(c) \/ TypeOf(c) # "object" THEN [ok |-> FALSE, v |-> cur]
          ELSE LET r == JsonDeletePath(c, Tail(keys))
               IN [ok |-> r.ok, v |-> PropSet(cur, keys[1], r.v)]

\* what delete hands back to its caller: the method is declared void and
\* every path ends in a bare return or falls off the end
JsonDeleteReturn(out) ==
  CASE out = "invalid key" -> Undef
    [] out = "does not exist" -> Undef
    [] out = "done" -> Undef
    [] OTHER -> Undef

JsonDelete(file, key) ==
  IF InvalidKey(key) THEN Ret(file, FALSE, "invalid key")
  ELSE LET r == JsonDeletePath(ReadDatabase(file), Split(key))
       IN IF r.ok THEN Ret(WriteDatabase(r.v), TRUE, "done")
          ELSE Ret(file, FALSE, "does not exist")

RECURSIVE deepEqualNoLengthCheck(_, _)
\* deepEqual, but without the comparison of the numbers of keys
deepEqualNoLengthCheck(obj1, obj2) ==
  IF StrictEq(obj1, obj2) THEN TRUE
  ELSE IF obj1.t \in {"null", "undef"} \/ obj2.t \in {"null", "undef"} THEN FALSE
  ELSE IF TypeOf(obj1) # TypeOf(obj2) THEN FALSE
  ELSE IF TypeOf(obj1) # "object" THEN StrictEq(obj1, obj2)
  ELSE IF IsArray(obj1) # IsArray(obj2) THEN FALSE
  ELSE \A key \in OwnKeys(obj1) :
         /\ key \in OwnKeys(obj2)
         /\ deepEqualNoLengthCheck(PropGet(obj1, key), PropGet(obj2, key))

RECURSIVE deepEqual(_, _)
deepEqual(obj1, obj2) ==
  IF StrictEq(obj1, obj2) THEN TRUE
  ELSE IF obj1.t \in {"null", "undef"} \/ obj2.t \in {"null", "undef"} THEN FALSE
  ELSE IF TypeOf(obj1) # TypeOf(obj2) THEN FALSE
  ELSE IF TypeOf(obj1) # "object" THEN StrictEq(obj1, obj2)
  ELSE IF IsArray(obj1) # IsArray(obj2) THEN FALSE
  ELSE IF Cardinality(OwnKeys(obj1)) # Cardinality(OwnKeys(obj2)) THEN FALSE
  ELSE \A key \in OwnKeys(obj1) :
         /\ key \in OwnKeys(obj2)
         /\ deepEqual(PropGet(obj1, key), PropGet(obj2, key))

RECURSIVE partialMatchNested(_, _)
\* partialMatch, but matching the nested values partially as well
partialMatchNested(target, partial) ==
  IF TypeOf(target) # "object" \/ TypeOf(partial) # "object"
  THEN deepEqual(target, partial)
  ELSE IF target = Null \/ partial = Null THEN FALSE
  ELSE \A key \in OwnKeys(partial) :
         /\ HasProp(target, key)
         /\ partialMatchNested(PropGet(target, key), PropGet(partial, key))

partialMatch(target, partial) ==
  IF TypeOf(target) # "object" \/ TypeOf(partial) # "object"
  THEN deepEqual(target, partial)
  ELSE IF target = Null \/ partial = Null THEN FALSE
  ELSE \A key \in OwnKeys(partial) :
         /\ HasProp(target, key)
         /\ deepEqual(PropGet(target, key), PropGet(partial, key))

JsonPush(file, key, value) ==
  IF InvalidKey(key) THEN Ret(file, FALSE, "invalid key")
  ELSE IF value = Undef THEN Ret(file, FALSE, "invalid value")
  ELSE LET data == ReadDatabase(file)
           keys == Split(key)
           cv == JsonFinalValue(data, keys)
           array == IF Falsy(cv) \/ ~IsArray(cv) THEN EmptyArr ELSE cv
       IN Ret(WriteDatabase(
                JsonSetPath(data, keys, Arr(Append(array.e, value), array.x))),
              TRUE, "done")

\* array.splice(i, 1), i counted from 1
Splice(e, i) == SubSeq(e, 1, i - 1) \o SubSeq(e, i + 1, Len(e))

JsonShouldRemove(elem, value) ==
  IF TypeOf(value) = "object" /\ value # Null
  THEN deepEqual(elem, value) \/ partialMatch(elem, value)
  ELSE StrictEq(elem, value)

RECURSIVE JsonUnpushLoop(_, _, _)
\* for (let i = array.length - 1; i >= 0; i--), i counted from 1
JsonUnpushLoop(e, i, value) ==
  IF i < 1 THEN e
  ELSE IF JsonShouldRemove(e[i], value)
       THEN JsonUnpushLoop(Splice(e, i), i - 1, value)
       ELSE JsonUnpushLoop(e, i - 1, value)

RECURSIVE JsonUnpushPath(_, _, _)
JsonUnpushPath(cur, keys, value) ==
  LET c == PropGet(cur, keys[1])
  IN IF Len(keys) = 1
     THEN IF Falsy(c) \/ ~IsArray(c) THEN [out |-> "not an array", v |-> cur]
          ELSE LET e == JsonUnpushLoop(c.e, Len(c.e), value)
               IN IF Len(c.e) - Len(e) > 0
                  THEN [out |-> "done", v |-> PropSet(cur, keys[1], Arr(e, c.x))]
                  ELSE [out |-> "no match", v |-> cur]
     ELSE IF Falsy(c) \/ TypeOf(c) # "object"
          THEN [out |-> "does not exist", v |-> cur]
          ELSE LET r == JsonUnpushPath(c, Tail(keys), value)
               IN [out |-> r.out, v |-> PropSet(cur, keys[1], r.v)]

JsonUnpush(file, key, value) ==
  IF InvalidKey(key) THEN Ret(file, FALSE, "invalid key")
  ELSE IF value = Undef THEN Ret(file, FALSE, "invalid value")
  ELSE LET r == JsonUnpushPath(ReadDatabase(file), Split(key), value)
       IN IF r.out = "done" THEN Ret(WriteDatabase(r.v), TRUE, "done")
          ELSE Ret(file, FALSE, r.out)

\* the two acknowledgement sentences (the first one transliterated to ASCII)
ApproveTR == "Tum verilerimin silinecegini kabul ediyor ve bu islemle ilgili tum sorumlulugun tarafima ait oldugunu beyan ediyorum."
ApproveEN == "I acknowledge that all my data will be deleted and declare that I am solely responsible for this process."

\* JsonDeleteAll, but without the comparison of the approval
JsonDeleteAllUnchecked(file, approve) ==
  LET data == ReadDatabase(file)
  IN Ret(WriteDatabase(Obj([k \in DOMAIN data.f \ DOMAIN data.f |-> Undef])),
         TRUE, "done")

JsonDeleteAll(file, approve) ==
  IF approve # ApproveTR /\ approve # ApproveEN
  THEN Ret(file, FALSE, "invalid approval")
  ELSE LET data == ReadDatabase(file)
       IN Ret(WriteDatabase(Obj([k \in DOMAIN data.f \ DOMAIN data.f |-> Undef])),
              TRUE, "done")

(***************************************************************************)
(* Remote backend: one record {key, value} per top-level key               *)
(***************************************************************************)
RECURSIVE MongoRoundTrip(_)
\* a value as the collection stores it and hands it back: arrays are stored
\* by index, a hole as null
MongoRoundTrip(v) ==
  CASE v.t = "obj" ->
         Obj([k \in {j \in DOMAIN v.f : v.f[j] # Undef} |-> MongoRoundTrip(v.f[k])])
    [] v.t = "arr" ->
         Arr([i \in 1..Len(v.e) |->
                IF v.e[i] = Undef THEN Null ELSE MongoRoundTrip(v.e[i])], NoFields)
    [] OTHER -> v

\* DatabaseSchema: key and value are required
SchemaValid(key, value) == key # <<>> /\ value \notin {Null, Undef}

\* document.save(): a record failing validation is rejected
MongoSave(coll, k0, value) ==
  IF SchemaValid(k0, value) THEN (k0 :> MongoRoundTrip(value)) @@ coll ELSE coll

RECURSIVE mongoDeepEqual(_, _)
mongoDeepEqual(obj1, obj2) ==
  IF StrictEq(obj1, obj2) THEN TRUE
  ELSE IF obj1.t \in {"null", "undef"} \/ obj2.t \in {"null", "undef"} THEN FALSE
  ELSE IF TypeOf(obj1) # TypeOf(obj2) THEN FALSE
  ELSE IF TypeOf(obj1) # "object" THEN StrictEq(obj1, obj2)
  ELSE IF IsArray(obj1) # IsArray(obj2) THEN FALSE
  ELSE IF Cardinality(OwnKeys(obj1)) # Cardinality(OwnKeys(obj2)) THEN FALSE
  ELSE \A key \in OwnKeys(obj1) :
         /\ key \in OwnKeys(obj2)
         /\ mongoDeepEqual(PropGet(obj1, key), PropGet(obj2, key))

mongoPartialMatch(target, partial) ==
  IF TypeOf(target) # "object" \/ TypeOf(partial) # "object"
  THEN mongoDeepEqual(target, partial)
  ELSE IF target = Null \/ partial = Null THEN FALSE
  ELSE \A key \in OwnKeys(partial) :
         /\ HasProp(target, key)
         /\ mongoDeepEqual(PropGet(target, key), PropGet(partial, key))

RECURSIVE setNestedValueFreshParents(_, _, _)
\* setNestedValue, but starting every intermediate container afresh
setNestedValueFreshParents(obj, path, value) ==
  IF Len(path) = 1 THEN PropSet(obj, path[1], value)
  ELSE PropSet(obj, path[1],
               setNestedValueFreshParents(EmptyObj, Tail(path), value))

RECURSIVE setNestedValue(_, _, _)
\* obj after the call (obj is mutated in place and returned)
setNestedValue(obj, path, value) ==
  IF Len(path) = 1 THEN PropSet(obj, path[1], value)
  ELSE LET c == PropGet(obj, path[1])
           child == IF Falsy(c) \/ TypeOf(c) # "object" THEN EmptyObj ELSE c
       IN PropSet(obj, path[1], setNestedValue(child, Tail(path), value))

RECURSIVE getNestedValue(_, _)
getNestedValue(obj, path) ==
  IF path = <<>> THEN obj
  ELSE IF obj.t \in {"null", "undef"} \/ TypeOf(obj) # "object"
          \/ ~HasProp(obj, path[1])
       THEN Undef
       ELSE getNestedValue(PropGet(obj, path[1]), Tail(path))

MongoSet(coll, key, value) ==
  IF InvalidKey(key) THEN Ret(coll, FALSE, "invalid key")
  ELSE IF value = Undef THEN Ret(coll, FALSE, "invalid value")
  ELSE LET keys == Split(key)
           k0 == keys[1]
       IN IF k0 \notin DOMAIN coll
          THEN LET newValue == setNestedValue(EmptyObj, keys, value)
               IN Ret(MongoSave(coll, k0, PropGet(newValue, k0)), TRUE,
                      IF SchemaValid(k0, PropGet(newValue, k0)) THEN "done"
                      ELSE "failed")
          ELSE LET updatedValue == IF Falsy(coll[k0]) THEN EmptyObj ELSE coll[k0]
                   wrapper == setNestedValue(Obj(k0 :> updatedValue), keys, value)
                   \* setNestedValue changes updatedValue itself only when it
                   \* walks into it; otherwise it replaces wrapper[keys[0]]
                   \* and updatedValue is left as it was
                   entered == Len(keys) > 1 /\ TypeOf(updatedValue) = "object"
                   docValue == IF entered THEN PropGet(wrapper, k0) ELSE updatedValue
               IN Ret(MongoSave(coll, k0, docValue), TRUE,
                      IF SchemaValid(k0, docValue) THEN "done" ELSE "failed")

MongoGet(coll, key) ==
  IF InvalidKey(key) THEN Undef
  ELSE LET keys == Split(key)
       IN IF keys[1] \notin DOMAIN coll THEN Undef
          ELSE getNestedValue(Obj(keys[1] :> coll[keys[1]]), keys)

MongoGetAll(coll) == Obj(coll)

MongoHas(coll, key) ==
  IF InvalidKey(key) THEN FALSE
  ELSE LET keys == Split(key)
       IN IF keys[1] \notin DOMAIN coll THEN FALSE
          ELSE getNestedValue(Obj(keys[1] :> coll[keys[1]]), keys) # Undef

\* MongoAdd, but without the guard on the type of the current value
MongoAddNoTypeGuard(coll, key, value) ==
  IF InvalidKey(key) THEN Ret(coll, FALSE, "invalid key")
  ELSE IF TypeOf(value) # "number" THEN Ret(coll, FALSE, "invalid value")
  ELSE LET currentValue == MongoGet(coll, key)
       IN IF TypeOf(currentValue) # "number" THEN MongoSet(coll, key, value)
          ELSE MongoSet(coll, key, NumAdd(currentValue, value))

MongoAdd(coll, key, value) ==
  IF InvalidKey(key) THEN Ret(coll, FALSE, "invalid key")
  ELSE IF TypeOf(value) # "number" THEN Ret(coll, FALSE, "invalid value")
  ELSE LET currentValue == MongoGet(coll, key)
       IN IF currentValue = Undef THEN MongoSet(coll, key, value)
          ELSE IF TypeOf(currentValue) # "number"
          THEN Ret(coll, FALSE, "not a number")
          ELSE MongoSet(coll, key, NumAdd(currentValue, value))

MongoSubtract(coll, key, value) ==
  IF InvalidKey(key) THEN Ret(coll, FALSE, "invalid key")
  ELSE IF TypeOf(value) # "number" THEN Ret(coll, FALSE, "invalid value")
  ELSE LET currentValue == MongoGet(coll, key)
       IN IF currentValue = Undef THEN MongoSet(coll, key, NumSub(Num(0), value))
          ELSE IF TypeOf(currentValue) # "number"
          THEN Ret(coll, FALSE, "not a number")
          ELSE MongoSet(coll, key, NumSub(currentValue, value))

RECURSIVE MongoDeleteField(_, _)
\* delete parent[finalKey], parent being the value that path minus its last
\* segment leads to inside obj
MongoDeleteField(obj, path) ==
  IF Len(path) = 1 THEN PropDelete(obj, path[1])
  ELSE PropSet(obj, path[1], MongoDeleteField(PropGet(obj, path[1]), Tail(path)))

\* what delete hands back to its caller: the method is declared
\* Promise<void> and every path ends in a bare return or falls off the end
MongoDeleteReturn(out) ==
  CASE out = "invalid key" -> Undef
    [] out = "does not exist" -> Undef
    [] out = "done" -> Undef
    [] OTHER -> Undef

\* MongoDelete, but saving the record without looking for the final segment
MongoDeleteNoFieldCheck(coll, key) ==
  IF InvalidKey(key) THEN Ret(coll, FALSE, "invalid key")
  ELSE LET keys == Split(key)
           k0 == keys[1]
       IN IF Len(keys) = 1
          THEN Ret([k \in DOMAIN coll \ {k0} |-> coll[k]], k0 \in DOMAIN coll,
                   IF k0 \in DOMAIN coll THEN "done" ELSE "does not exist")
          ELSE IF k0 \notin DOMAIN coll THEN Ret(coll, FALSE, "does not exist")
          ELSE LET obj == Obj(k0 :> coll[k0])
                   parent == getNestedValue(obj, SubSeq(keys, 1, Len(keys) - 1))
               IN IF ~Falsy(parent) /\ TypeOf(parent) = "object"
                  THEN Ret(MongoSave(coll, k0,
                                     PropGet(MongoDeleteField(obj, keys), k0)),
                           TRUE, "done")
                  ELSE Ret(coll, FALSE, "does not exist")

MongoDelete(coll, key) ==
  IF InvalidKey(key) THEN Ret(coll, FALSE, "invalid key")
  ELSE LET keys == Split(key)
           k0 == keys[1]
       IN IF Len(keys) = 1
          THEN \* deleteOne({ key: keys[0] })
               Ret([k \in DOMAIN coll \ {k0} |-> coll[k]], k0 \in DOMAIN coll,
                   IF k0 \in DOMAIN coll THEN "done" ELSE "does not exist")
          ELSE IF k0 \notin DOMAIN coll THEN Ret(coll, FALSE, "does not exist")
          ELSE LET obj == Obj(k0 :> coll[k0])
                   parentPath == SubSeq(keys, 1, Len(keys) - 1)
                   finalKey == keys[Len(keys)]
                   parent == getNestedValue(obj, parentPath)
               IN IF ~Falsy(parent) /\ TypeOf(parent) = "object"
                     /\ HasProp(parent, finalKey)
                  THEN Ret(MongoSave(coll, k0,
                                     PropGet(MongoDeleteField(obj, keys), k0)),
                           TRUE, "done")
                  ELSE Ret(coll, FALSE, "does not exist")

MongoDeleteAll(coll, approve) ==
  IF approve # ApproveTR /\ approve # ApproveEN
  THEN Ret(coll, FALSE, "invalid approval")
  ELSE \* deleteMany({})
       Ret([k \in DOMAIN coll \ DOMAIN coll |-> Undef], DOMAIN coll # {}, "done")

MongoPush(coll, key, value) ==
  IF InvalidKey(key) THEN Ret(coll, FALSE, "invalid key")
  ELSE IF value = Undef THEN Ret(coll, FALSE, "invalid value")
  ELSE LET currentValue == MongoGet(coll, key)
       IN IF Falsy(currentValue) \/ ~IsArray(currentValue)
          THEN MongoSet(coll, key, Arr(<<value>>, NoFields))
          ELSE MongoSet(coll, key,
                        Arr(Append(currentValue.e, value), currentValue.x))

MongoShouldRemove(elem, value) ==
  IF TypeOf(value) = "object" /\ value # Null
  THEN mongoDeepEqual(elem, value) \/ mongoPartialMatch(elem, value)
  ELSE StrictEq(elem, value)

RECURSIVE MongoPullLoop(_, _, _)
\* for (let i = currentValue.length - 1; i >= 0; i--), i counted from 1
MongoPullLoop(e, i, value) ==
  IF i < 1 THEN e
  ELSE IF MongoShouldRemove(e[i], value)
       THEN MongoPullLoop(Splice(e, i), i - 1, value)
       ELSE MongoPullLoop(e, i - 1, value)

\* MongoPull, but storing the array whether or not an element was removed
MongoPullAlwaysStores(coll, key, value) ==
  IF InvalidKey(key) THEN Ret(coll, FALSE, "invalid key")
  ELSE IF value = Undef THEN Ret(coll, FALSE, "invalid value")
  ELSE LET currentValue == MongoGet(coll, key)
       IN IF Falsy(currentValue) \/ ~IsArray(currentValue)
          THEN Ret(coll, FALSE, "not an array")
          ELSE LET e == MongoPullLoop(currentValue.e, Len(currentValue.e), value)
               IN MongoSet(coll, key, Arr(e, currentValue.x))

MongoPull(coll, key, value) ==
  IF InvalidKey(key) THEN Ret(coll, FALSE, "invalid key")
  ELSE IF value = Undef THEN Ret(coll, FALSE, "invalid value")
  ELSE LET currentValue == MongoGet(coll, key)
       IN IF Falsy(currentValue) \/ ~IsArray(currentValue)
          THEN Ret(coll, FALSE, "not an array")
          ELSE LET e == MongoPullLoop(currentValue.e, Len(currentValue.e), value)
               IN IF Len(currentValue.e) - Len(e) > 0
                  THEN MongoSet(coll, key, Arr(e, currentValue.x))
                  ELSE Ret(coll, FALSE, "no match")

(***************************************************************************)
(* Inputs of the calls                                                     *)
(***************************************************************************)
KeyA == <<"a">>
KeyB == <<"b">>
KeyAB == <<"a", ".", "b">>
KeyAC == <<"a", ".", "c">>
KeyA0 == <<"a", ".", "0">>
Keys == {<<>>, KeyA, KeyB, KeyAB, KeyAC, KeyA0}

ObjC1 == Obj(<<"c">> :> Num(1))
ArrOfOne == Arr(<<Str(<<"x">>)>>, NoFields)
ObjCD == Obj((<<"c">> :> Num(1)) @@ (<<"d">> :> Num(1)))
Arr1 == Arr(<<Num(1)>>, NoFields)

\* arguments of set; Undef is the "no value" argument
SetValues == {Undef, Num(0), Str(<<"x">>), Arr1}
\* arguments of add and subtract
AddValues == {Num(1), Str(<<"x">>)}
\* arguments of push and pull
PushValues == {Undef, Num(1), Str(<<"x">>)}
\* arguments of deleteAll
Approvals == {ApproveTR, ApproveEN, "yes"}

\* the smaller inputs of a run that drives both backends
PairKeys == {KeyA, KeyAB}
PairSetValues == {Num(0), Str(<<"x">>)}
PairAddValues == {Num(1)}
PairPushValues == {Num(1), Str(<<"x">>), ObjC1, ObjCD}

\* the numbers stored by the model stay within -MaxNum .. MaxNum
NumOK(v) == IF v.t = "num" THEN v.n <= MaxNum /\ v.n >= 0 - MaxNum ELSE TRUE
\* the number add and subtract start from when they store a number
Prior(v) == IF TypeOf(v) = "number" THEN v ELSE Num(0)
\* the arrays grown by push stay within MaxArrLen elements
LenOK(v) == IF v.t = "arr" THEN Len(v.e) < MaxArrLen ELSE TRUE

\* the call is made on the file backend / on the remote backend
OnJson == backend \in {"json", "both"}
OnMongo == backend \in {"mongo", "both"}

\* the inputs of the run's calls
KeysIn == IF backend = "both" THEN PairKeys ELSE Keys
SetValuesIn == IF backend = "both" THEN PairSetValues ELSE SetValues
AddValuesIn == IF backend = "both" THEN PairAddValues ELSE AddValues
PushValuesIn == IF backend = "both" THEN PairPushValues ELSE PushValues

\* the record of the latest call: its name, whether it wrote to the medium
\* and how it ended, on each backend it was made on
Called(op, j, m) ==
  [op |-> op,
   jw |-> OnJson /\ j.w, jout |-> IF OnJson THEN j.out ELSE "",
   mw |-> OnMongo /\ m.w, mout |-> IF OnMongo THEN m.out ELSE ""]

\* the result of a read
Read(out) == Ret(<<>>, FALSE, out)

\* the operations in flight when callers do not wait for one another; none
\* when every call is awaited before the next one is made
NoTasks == <<>>

\* no limiter created, no request received
NoWeb == now = 0 /\ ipStore = <<>> /\ served = <<>>
\* no comparison made
Compared(fn, j, m) == [fn |-> fn, json |-> j, mongo |-> m]
NoCompare == operands = <<>> /\ result = Compared("none", FALSE, FALSE)

\* fs.readFileSync + JSON.parse of the manage file: they throw, or give routes
NoManifest == [ok |-> FALSE, routes |-> <<>>]

\* softify has not been called
NoLoader ==
  /\ manageFile = NoManifest
  /\ requireDefined = FALSE
  /\ position = 0
  /\ app = <<>>
  /\ logs = <<>>
  /\ settled = "pending"

\* the state of the two database objects and of the host process: the field
\* connected of each object, whether the remote object has its model, and
\* whether process.exit has been called; disconnectCalled remembers that
\* disconnect() has been called since the remote object last connected
Connection(j, m, model, called, exited) ==
  [json |-> j, mongo |-> m, model |-> model, disconnectCalled |-> called,
   exited |-> exited]
NotConnectedYet == Connection(FALSE, FALSE, FALSE, FALSE, FALSE)
AllConnected == Connection(TRUE, TRUE, TRUE, FALSE, FALSE)

\* CheckConnection, but passing every object
CheckConnectionAlways(c) == TRUE
\* JsonDatabase.CheckConnection: false stands for the call of process.exit
CheckConnection(c) == c.json
\* checkConnection, but looking at the model only
checkConnectionModelOnly(c) == c.model
\* MongoDatabase.checkConnection: false stands for the call of process.exit
checkConnection(c) == c.mongo /\ c.model

\* the process runs and the objects the call is made on pass their check
Ready ==
  /\ ~conn.exited
  /\ OnJson => CheckConnection(conn)
  /\ OnMongo => checkConnection(conn)

(***************************************************************************)
(* The calls.  A run drives one backend, or both with the same calls.      *)
(***************************************************************************)
\* the store as connect() leaves it on first use: the README's usage connects
\* before the first call
Init ==
  /\ backend \in {"json", "mongo"}
  /\ jfile = EmptyObj
  /\ mcoll = [k \in {} |-> Undef]
  /\ conn = AllConnected
  /\ tasks = NoTasks
  /\ NoWeb
  /\ NoCompare
  /\ NoLoader
  /\ last = [op |-> "new", jw |-> FALSE, jout |-> "", mw |-> FALSE, mout |-> ""]

Set ==
  \E key \in KeysIn, value \in SetValuesIn :
    LET j == JsonSet(jfile, key, value)
        m == MongoSet(mcoll, key, value)
    IN /\ jfile' = IF OnJson THEN j.st ELSE jfile
       /\ mcoll' = IF OnMongo THEN m.st ELSE mcoll
       /\ last' = Called("set", j, m)
       /\ Ready
       /\ UNCHANGED <<backend, conn, tasks, web, compare, loader>>

Get ==
  \E key \in KeysIn :
    /\ last' = Called("get",
                 Read(IF JsonGet(jfile, key) = Undef THEN "not found" ELSE "found"),
                 Read(IF MongoGet(mcoll, key) = Undef THEN "not found" ELSE "found"))
    /\ Ready
    /\ UNCHANGED <<backend, jfile, mcoll, conn, tasks, web, compare, loader>>

GetAll ==
  /\ last' = Called("getAll", Read("found"), Read("found"))
  /\ Ready
  /\ UNCHANGED <<backend, jfile, mcoll, conn, tasks, web, compare, loader>>

Has ==
  \E key \in KeysIn :
    /\ last' = Called("has",
                 Read(IF JsonHas(jfile, key) THEN "true" ELSE "false"),
                 Read(IF MongoHas(mcoll, key) THEN "true" ELSE "false"))
    /\ Ready
    /\ UNCHANGED <<backend, jfile, mcoll, conn, tasks, web, compare, loader>>

Add ==
  \E key \in KeysIn, value \in AddValuesIn :
    LET j == JsonAdd(jfile, key, value)
        m == MongoAdd(mcoll, key, value)
    IN /\ TypeOf(value) = "number" =>
            /\ NumOK(NumAdd(Prior(JsonGet(jfile, key)), value))
            /\ NumOK(NumAdd(Prior(MongoGet(mcoll, key)), value))
       /\ jfile' = IF OnJson THEN j.st ELSE jfile
       /\ mcoll' = IF OnMongo THEN m.st ELSE mcoll
       /\ last' = Called("add", j, m)
       /\ Ready
       /\ UNCHANGED <<backend, conn, tasks, web, compare, loader>>

Subtract ==
  \E key \in KeysIn, value \in AddValuesIn :
    LET j == JsonSubtract(jfile, key, value)
        m == MongoSubtract(mcoll, key, value)
    IN /\ TypeOf(value) = "number" =>
            /\ NumOK(NumSub(Prior(JsonGet(jfile, key)), value))
            /\ NumOK(NumSub(Prior(MongoGet(mcoll, key)), value))
       /\ jfile' = IF OnJson THEN j.st ELSE jfile
       /\ mcoll' = IF OnMongo THEN m.st ELSE mcoll
       /\ last' = Called("subtract", j, m)
       /\ Ready
       /\ UNCHANGED <<backend, conn, tasks, web, compare, loader>>

Delete ==
  \E key \in KeysIn :
    LET j == JsonDelete(jfile, key)
        m == MongoDelete(mcoll, key)
    IN /\ jfile' = IF OnJson THEN j.st ELSE jfile
       /\ mcoll' = IF OnMongo THEN m.st ELSE mcoll
       /\ last' = Called("delete", j, m)
       /\ Ready
       /\ UNCHANGED <<backend, conn, tasks, web, compare, loader>>

DeleteAll ==
  \E approve \in Approvals :
    LET j == JsonDeleteAll(jfile, approve)
        m == MongoDeleteAll(mcoll, approve)
    IN /\ jfile' = IF OnJson THEN j.st ELSE jfile
       /\ mcoll' = IF OnMongo THEN m.st ELSE mcoll
       /\ last' = Called("deleteAll", j, m)
       /\ Ready
       /\ UNCHANGED <<backend, conn, tasks, web, compare, loader>>

Push ==
  \E key \in KeysIn, value \in PushValuesIn :
    LET j == JsonPush(jfile, key, value)
        m == MongoPush(mcoll, key, value)
    IN /\ LenOK(JsonGet(jfile, key))
       /\ LenOK(MongoGet(mcoll, key))
       /\ jfile' = IF OnJson THEN j.st ELSE jfile
       /\ mcoll' = IF OnMongo THEN m.st ELSE mcoll
       /\ last' = Called("push", j, m)
       /\ Ready
       /\ UNCHANGED <<backend, conn, tasks, web, compare, loader>>

Pull ==
  \E key \in KeysIn, value \in PushValuesIn :
    LET j == JsonUnpush(jfile, key, value)
        m == MongoPull(mcoll, key, value)
    IN /\ jfile' = IF OnJson THEN j.st ELSE jfile
       /\ mcoll' = IF OnMongo THEN m.st ELSE mcoll
       /\ last' = Called("pull", j, m)
       /\ Ready
       /\ UNCHANGED <<backend, conn, tasks, web, compare, loader>>

Next ==
  \/ Set
  \/ Get
  \/ GetAll
  \/ Has
  \/ Add
  \/ Subtract
  \/ Delete
  \/ DeleteAll

Spec == Init /\ [][Next]_vars

\* both backends, driven by the same sequence of calls
InitPair ==
  /\ backend = "both"
  /\ jfile = EmptyObj
  /\ mcoll = [k \in {} |-> Undef]
  /\ conn = AllConnected
  /\ tasks = NoTasks
  /\ NoWeb
  /\ NoCompare
  /\ NoLoader
  /\ last = [op |-> "new", jw |-> FALSE, jout |-> "", mw |-> FALSE, mout |-> ""]

NextPair ==
  \/ Next
  \/ Push
  \/ Pull

SpecPair == InitPair /\ [][NextPair]_vars

(***************************************************************************)
(* The connection of an object, from its construction on                   *)
(***************************************************************************)
\* the outcome of a call that is not an operation on the store
Outcome(op, out) ==
  [op |-> op,
   jw |-> FALSE, jout |-> IF OnJson THEN out ELSE "",
   mw |-> FALSE, mout |-> IF OnMongo THEN out ELSE ""]

\* the operations that start with the connection check
OpNames ==
  {"set", "get", "getAll", "has", "add", "subtract", "delete", "deleteAll",
   "push", "pull"}

\* connect(): ok is whether the file checks pass / mongoose.connect resolves;
\* when not, connect throws and the object is as before
Connect ==
  \E ok \in BOOLEAN :
    /\ ~conn.exited
    /\ conn' = IF ~ok THEN conn
               ELSE IF OnJson THEN [conn EXCEPT !.json = TRUE]
               ELSE [conn EXCEPT !.mongo = TRUE, !.model = TRUE,
                                 !.disconnectCalled = FALSE]
    /\ last' = Outcome("connect", IF ok THEN "done" ELSE "failed")
    /\ UNCHANGED <<backend, jfile, mcoll, tasks, web, compare, loader>>

\* MongoDatabase.disconnect(): ok is whether mongoose.disconnect resolves;
\* when not, a warning is logged and connected stays as it is
Disconnect ==
  \E ok \in BOOLEAN :
    /\ ~conn.exited
    /\ OnMongo
    /\ conn' = [conn EXCEPT !.mongo = IF ok THEN FALSE ELSE @,
                            !.disconnectCalled = TRUE]
    /\ last' = Outcome("disconnect", IF ok THEN "done" ELSE "failed")
    /\ UNCHANGED <<backend, jfile, mcoll, tasks, web, compare, loader>>

\* an operation called on an object that does not pass its connection
\* check: a warning, then process.exit(0); the store is not reached
NotConnected ==
  \E op \in OpNames :
    /\ ~conn.exited
    /\ ~Ready
    /\ conn' = [conn EXCEPT !.exited = TRUE]
    /\ last' = Outcome(op, "exit")
    /\ UNCHANGED <<backend, jfile, mcoll, tasks, web, compare, loader>>

\* a freshly constructed object
InitConn ==
  /\ backend \in {"json", "mongo"}
  /\ jfile = EmptyObj
  /\ mcoll = [k \in {} |-> Undef]
  /\ conn = NotConnectedYet
  /\ tasks = NoTasks
  /\ NoWeb
  /\ NoCompare
  /\ NoLoader
  /\ last = [op |-> "new", jw |-> FALSE, jout |-> "", mw |-> FALSE, mout |-> ""]

NextConn ==
  \/ Connect
  \/ Disconnect
  \/ NotConnected
  \/ Get
  \/ Has
  \/ Add
  \/ Subtract

SpecConn == InitConn /\ [][NextConn]_vars

(***************************************************************************)
(* Callers that do not wait for one another.  On the file backend they are *)
(* processes sharing the file: readFileSync and writeFileSync are separate *)
(* steps.  On the remote backend they are calls started without await:     *)
(* every await (get, findOne, save, deleteOne) is a separate step.         *)
(***************************************************************************)
Callers == {1, 2}

RaceKeys == {KeyA, KeyB, KeyAB}
Call(op, key, value) == [op |-> op, key |-> key, value |-> value]
RaceCalls ==
  {Call("set", k, v) : k \in RaceKeys, v \in {Num(1), Num(2)}}
    \cup {Call("add", k, Num(1)) : k \in RaceKeys}
    \cup {Call("push", k, Str(<<"x">>)) : k \in RaceKeys}
    \cup {Call("delete", k, Undef) : k \in RaceKeys}

\* the documents the callers find
RaceDocs ==
  {EmptyObj,
   Obj(<<"a">> :> Obj(<<"b">> :> Num(0))),
   Obj((<<"a">> :> Obj(<<"b">> :> ArrOfOne)) @@ (<<"b">> :> Num(0)))}

\* a caller: where it is in its call, the call, the value its get returned,
\* the file content or record it read; start remembers the store when the
\* call began and stale that another caller wrote after this one read
Task(pc, call, cur, doc, start, stale) ==
  [pc |-> pc, call |-> call, cur |-> cur, doc |-> doc, start |-> start,
   stale |-> stale]
IdleTask == Task("idle", Call("none", <<>>, Undef), Undef, <<>>, <<>>, FALSE)

FirstSegment(key) == Split(key)[1]

\* the handler of a call, on the file backend
JsonCall(c, file) ==
  CASE c.op = "set" -> JsonSet(file, c.key, c.value)
    [] c.op = "add" -> JsonAdd(file, c.key, c.value)
    [] c.op = "push" -> JsonPush(file, c.key, c.value)
    [] OTHER -> JsonDelete(file, c.key)

\* the handler of a call, on the remote backend
MongoCall(c, coll) ==
  CASE c.op = "set" -> MongoSet(coll, c.key, c.value)
    [] c.op = "add" -> MongoAdd(coll, c.key, c.value)
    [] c.op = "push" -> MongoPush(coll, c.key, c.value)
    [] OTHER -> MongoDelete(coll, c.key)

\* the caller has read what its write will be computed from
HasRead(t) ==
  \/ t.pc \in {"write", "save"}
  \/ t.pc = "find" /\ t.call.op \in {"add", "push"}

\* caller i writes: the callers that have read the same file or record and
\* not written yet now hold a stale copy
AfterWrite(i, t) ==
  [j \in Callers |->
     IF j = i THEN t
     ELSE IF HasRead(tasks[j])
             /\ (OnJson \/ FirstSegment(tasks[j].call.key)
                             = FirstSegment(t.call.key))
          THEN [tasks[j] EXCEPT !.stale = TRUE]
          ELSE tasks[j]]

\* the file after the caller's writeFileSync: what the handler made of the
\* content the caller read, whatever the file holds by now
JsonWriteBackFresh(file, t) == JsonCall(t.call, file).st
JsonWriteBack(file, t) == JsonCall(t.call, t.doc).st

\* findOne({ key: keys[0] }): the one record of the first segment, if any
FindOne(coll, k0) == [k \in DOMAIN coll \cap {k0} |-> coll[k]]

\* the value add and push hand to set, from what their get returned
SetArg(t) ==
  CASE t.call.op = "add" ->
         IF t.cur = Undef THEN t.call.value ELSE NumAdd(t.cur, t.call.value)
    [] t.call.op = "push" ->
         IF Falsy(t.cur) \/ ~IsArray(t.cur)
         THEN Arr(<<t.call.value>>, NoFields)
         ELSE Arr(Append(t.cur.e, t.call.value), t.cur.x)
    [] OTHER -> t.call.value

\* what set or delete makes of the record the caller found
Changed(t) ==
  IF t.call.op = "delete" THEN MongoDelete(t.doc, t.call.key)
  ELSE MongoSet(t.doc, t.call.key, SetArg(t))

\* Saved, but the whole call done on the collection as it is at the save
SavedAtomic(coll, t) == MongoCall(t.call, coll).st

\* Saved, but the collection replaced by what the caller holds
SavedReplacesAll(coll, t) ==
  IF Changed(t).w THEN Changed(t).st ELSE coll

\* the collection after document.save(): a new document is inserted unless the
\* unique key is taken by now, a found one is updated unless it is gone by now
Saved(coll, t) ==
  LET k0 == FirstSegment(t.call.key)
      r == Changed(t)
  IN IF ~r.w THEN coll
     ELSE IF k0 \notin DOMAIN r.st THEN coll
     ELSE IF (k0 \in DOMAIN t.doc) = (k0 \in DOMAIN coll)
          THEN IF k0 \in DOMAIN coll
               THEN [coll EXCEPT ![k0] = r.st[k0]]
               ELSE (k0 :> r.st[k0]) @@ coll
          ELSE coll

\* where a call starts
FirstStep(c) ==
  IF OnJson THEN "read"
  ELSE CASE c.op \in {"add", "push"} -> "get"
         [] c.op = "delete" /\ Len(Split(c.key)) = 1 -> "deleteOne"
         [] OTHER -> "find"

Begin ==
  /\ Ready
  /\ \E i \in Callers, c \in RaceCalls :
       /\ tasks[i].pc = "idle"
       /\ tasks' = [tasks EXCEPT ![i] =
                      Task(FirstStep(c), c, Undef, <<>>,
                           IF OnJson THEN jfile ELSE mcoll, FALSE)]
  /\ UNCHANGED <<backend, jfile, mcoll, conn, last, web, compare, loader>>

\* readFileSync + JSON.parse
JsonRead ==
  /\ OnJson
  /\ \E i \in Callers :
       /\ tasks[i].pc = "read"
       /\ tasks' = [tasks EXCEPT ![i].pc = "write",
                                 ![i].doc = ReadDatabase(jfile)]
  /\ UNCHANGED <<backend, jfile, mcoll, conn, last, web, compare, loader>>

\* the handler's work on what was read, then writeFileSync if it writes
JsonWrite ==
  /\ OnJson
  /\ \E i \in Callers :
       /\ tasks[i].pc = "write"
       /\ IF JsonCall(tasks[i].call, tasks[i].doc).w
          THEN /\ jfile' = JsonWriteBack(jfile, tasks[i])
               /\ tasks' = AfterWrite(i, [tasks[i] EXCEPT !.pc = "done"])
          ELSE /\ jfile' = jfile
               /\ tasks' = [tasks EXCEPT ![i].pc = "done"]
  /\ UNCHANGED <<backend, mcoll, conn, last, web, compare, loader>>

\* const currentValue = await this.get(key)
MongoGetStep ==
  /\ OnMongo
  /\ \E i \in Callers :
       /\ tasks[i].pc = "get"
       /\ LET currentValue == MongoGet(mcoll, tasks[i].call.key)
          IN tasks' = [tasks EXCEPT
               ![i].cur = currentValue,
               ![i].pc = IF /\ tasks[i].call.op = "add"
                            /\ currentValue # Undef
                            /\ TypeOf(currentValue) # "number"
                         THEN "done" ELSE "find"]
  /\ UNCHANGED <<backend, jfile, mcoll, conn, last, web, compare, loader>>

\* let document = await this.model.findOne({ key: keys[0] })
MongoFind ==
  /\ OnMongo
  /\ \E i \in Callers :
       /\ tasks[i].pc = "find"
       /\ tasks' = [tasks EXCEPT
            ![i].pc = "save",
            ![i].doc = FindOne(mcoll, FirstSegment(tasks[i].call.key))]
  /\ UNCHANGED <<backend, jfile, mcoll, conn, last, web, compare, loader>>

\* await document.save(), when the call comes to it
MongoSaveStep ==
  /\ OnMongo
  /\ \E i \in Callers :
       /\ tasks[i].pc = "save"
       /\ mcoll' = Saved(mcoll, tasks[i])
       /\ tasks' = IF Changed(tasks[i]).w
                   THEN AfterWrite(i, [tasks[i] EXCEPT !.pc = "done"])
                   ELSE [tasks EXCEPT ![i].pc = "done"]
  /\ UNCHANGED <<backend, jfile, conn, last, web, compare, loader>>

\* await this.model.deleteOne({ key: keys[0] })
MongoDeleteOne ==
  /\ OnMongo
  /\ \E i \in Callers :
       /\ tasks[i].pc = "deleteOne"
       /\ mcoll' = MongoDelete(mcoll, tasks[i].call.key).st
       /\ tasks' = IF MongoDelete(mcoll, tasks[i].call.key).w
                   THEN AfterWrite(i, [tasks[i] EXCEPT !.pc = "done"])
                   ELSE [tasks EXCEPT ![i].pc = "done"]
  /\ UNCHANGED <<backend, jfile, conn, last, web, compare, loader>>

InitRace ==
  /\ backend \in {"json", "mongo"}
  /\ \E d \in RaceDocs :
       /\ jfile = (IF backend = "json" THEN d ELSE EmptyObj)
       /\ mcoll = (IF backend = "mongo" THEN d.f ELSE NoFields)
  /\ conn = AllConnected
  /\ tasks = [i \in Callers |-> IdleTask]
  /\ NoWeb
  /\ NoCompare
  /\ NoLoader
  /\ last = [op |-> "new", jw |-> FALSE, jout |-> "", mw |-> FALSE, mout |-> ""]

NextRace ==
  \/ Begin
  \/ JsonRead
  \/ JsonWrite
  \/ MongoGetStep
  \/ MongoFind
  \/ MongoSaveStep
  \/ MongoDeleteOne

SpecRace == InitRace /\ [][NextRace]_vars

(***************************************************************************)
(* The rate limiter.  ipStore is one module-level map shared by every      *)
(* middleware that rateLimit returns; softify mounts one limiter per route.*)
(***************************************************************************)
MaxTime == 4
MaxRequests == 4

\* the limiters created: rateLimit({windowMs, limit}), autoCleanup left on
Options ==
  <<[windowMs |-> 3, limit |-> 2], [windowMs |-> 1, limit |-> 1]>>
Limiters == DOMAIN Options
IPs == {"ip1", "ip2"}

\* Valid, but keeping what the longest window of any limiter still covers
ValidLongestWindow(timestamps, t0, windowMs) ==
  SelectSeq(timestamps,
            LAMBDA t : \E l \in DOMAIN Options : t0 - t < Options[l].windowMs)

\* timestamps.filter((t) => now - t < windowMs)
Valid(timestamps, t0, windowMs) ==
  SelectSeq(timestamps, LAMBDA t : t0 - t < windowMs)

\* the log kept for a client after one more request
Logged(store, ip, t0, windowMs) ==
  Append(Valid(IF ip \in DOMAIN store THEN store[ip] ELSE <<>>, t0, windowMs),
         t0)

TooMany == 429
Passed == 200

\* Answer, but refusing the request that reaches the limit
AnswerAtLimit(timestamps, limit) ==
  IF Len(timestamps) >= limit THEN TooMany ELSE Passed

\* the answer: 429, or the request handed on to next()
Answer(timestamps, limit) ==
  IF Len(timestamps) > limit THEN TooMany ELSE Passed

\* the setInterval callback: expired entries dropped, empty logs deleted
Cleaned(store, t0, windowMs) ==
  LET kept == {ip \in DOMAIN store : Valid(store[ip], t0, windowMs) # <<>>}
  IN [ip \in kept |-> Valid(store[ip], t0, windowMs)]

\* Date.now() moves on
Tick ==
  /\ now < MaxTime
  /\ now' = now + 1
  /\ UNCHANGED <<backend, jfile, mcoll, conn, tasks, last, ipStore, served,
                 compare, loader>>

\* a request from ip reaches the middleware of limiter l
Request ==
  /\ Len(served) < MaxRequests
  /\ \E l \in Limiters, ip \in IPs :
       LET timestamps == Logged(ipStore, ip, now, Options[l].windowMs)
       IN /\ ipStore' = (ip :> timestamps) @@ ipStore
          /\ served' = Append(served,
                              [l |-> l, ip |-> ip, at |-> now,
                               status |-> Answer(timestamps, Options[l].limit)])
  /\ UNCHANGED <<backend, jfile, mcoll, conn, tasks, last, now, compare, loader>>

\* the cleanup timer of limiter l fires
Cleanup ==
  /\ \E l \in Limiters :
       ipStore' = Cleaned(ipStore, now, Options[l].windowMs)
  /\ UNCHANGED <<backend, jfile, mcoll, conn, tasks, last, now, served,
                 compare, loader>>

InitWeb ==
  /\ backend = "json"
  /\ jfile = EmptyObj
  /\ mcoll = NoFields
  /\ conn = NotConnectedYet
  /\ tasks = NoTasks
  /\ last = [op |-> "new", jw |-> FALSE, jout |-> "", mw |-> FALSE, mout |-> ""]
  /\ NoWeb
  /\ NoCompare
  /\ NoLoader

NextWeb ==
  \/ Tick
  \/ Request
  \/ Cleanup

SpecWeb == InitWeb /\ [][NextWeb]_vars

(***************************************************************************)
(* The comparisons behind unpush / pull, applied to pairs of values as     *)
(* they are stored: array elements, and what an argument is made of.       *)
(***************************************************************************)
CompareValues ==
  {Null, Bool(TRUE), Bool(FALSE), Num(0), Num(1), Str(<<>>), Str(<<"x">>),
   EmptyObj, ObjC1, ObjCD, Obj(<<"c">> :> Num(0)), Obj(<<"0">> :> Num(1)),
   Obj(<<"a">> :> ObjC1), Obj(<<"a">> :> ObjCD), Obj(<<"c">> :> Null),
   EmptyArr, Arr1, Arr(<<Num(1), Num(1)>>, NoFields),
   Arr(<<Num(0), Num(1)>>, NoFields), Arr(<<Num(1), Num(0)>>, NoFields),
   Arr(<<ObjC1>>, NoFields), Arr(<<ObjCD>>, NoFields)}

\* deepEqual(operands) in the two classes
DeepEqual ==
  /\ result' = Compared("deepEqual",
                        deepEqual(operands[1], operands[2]),
                        mongoDeepEqual(operands[1], operands[2]))
  /\ UNCHANGED <<backend, jfile, mcoll, conn, tasks, last, web, operands, loader>>

\* partialMatch(array[i], value) in the two classes; unpush and pull call it
\* only under typeof value === "object" && value !== null
PartialMatch ==
  /\ TypeOf(operands[2]) = "object" /\ operands[2] # Null
  /\ result' = Compared("partialMatch",
                        partialMatch(operands[1], operands[2]),
                        mongoPartialMatch(operands[1], operands[2]))
  /\ UNCHANGED <<backend, jfile, mcoll, conn, tasks, last, web, operands, loader>>

InitCompare ==
  /\ backend = "both"
  /\ jfile = EmptyObj
  /\ mcoll = NoFields
  /\ conn = AllConnected
  /\ tasks = NoTasks
  /\ last = [op |-> "new", jw |-> FALSE, jout |-> "", mw |-> FALSE, mout |-> ""]
  /\ NoWeb
  /\ operands \in CompareValues \X CompareValues
  /\ result = Compared("none", FALSE, FALSE)
  /\ NoLoader

NextCompare ==
  \/ DeepEqual
  \/ PartialMatch

SpecCompare == InitCompare /\ [][NextCompare]_vars

(***************************************************************************)
(* One instance and its medium: another writer may change the medium       *)
(* between the instance's calls, the file may be unreadable, and a write   *)
(* may fail.  writeFileSync truncates the file when it opens it, so a      *)
(* write that fails leaves the file as it was (the open failed) or torn    *)
(* (a write after the open failed); a rejected save or deleteOne leaves the *)
(* collection as it was.                                                   *)
(***************************************************************************)
MediumKeys == {KeyA, KeyB, KeyAB}
MediumValues == {Num(1), Str(<<"x">>)}

\* how a write to the medium ends
WriteOutcomes ==
  IF OnJson THEN {"written", "refused", "torn"} ELSE {"written", "refused"}

\* the medium after a write of new over old that ended as how
Written(old, new, how) ==
  CASE how = "written" -> new
    [] how = "refused" -> old
    [] OTHER -> Unreadable

Medium == IF OnJson THEN jfile ELSE mcoll

\* the latest call of the instance: the medium it found (before), what it
\* returned (ret), how its write ended (how), whether another writer had
\* changed the medium since the call before it (changed), and whether one has
\* since this call (foreign)
Latest(op, key, value, before, ret, how, changed) ==
  [op |-> op, key |-> key, value |-> value, before |-> before, ret |-> ret,
   how |-> how, changed |-> changed, foreign |-> FALSE]

\* a mutating call c and the way its write ends
Mutation(c, how) ==
  LET j == JsonCall(c, jfile)
      m == MongoCall(c, mcoll)
  IN /\ jfile' = IF OnJson /\ j.w THEN Written(jfile, j.st, how) ELSE jfile
     /\ mcoll' = IF OnMongo /\ m.w THEN Written(mcoll, m.st, how) ELSE mcoll
     /\ last' = Latest(c.op, c.key, c.value, Medium, Undef,
                       IF (OnJson /\ j.w) \/ (OnMongo /\ m.w)
                       THEN how ELSE "none",
                       last.foreign)

CallSet ==
  /\ \E k \in MediumKeys, v \in MediumValues, how \in WriteOutcomes :
       Mutation(Call("set", k, v), how)
  /\ UNCHANGED <<backend, conn, tasks, web, compare, loader>>

CallDelete ==
  /\ \E k \in MediumKeys, how \in WriteOutcomes :
       Mutation(Call("delete", k, Undef), how)
  /\ UNCHANGED <<backend, conn, tasks, web, compare, loader>>

CallGet ==
  /\ \E k \in MediumKeys :
       last' = Latest("get", k, Undef, Medium,
                      IF OnJson THEN JsonGet(jfile, k) ELSE MongoGet(mcoll, k),
                      "none", last.foreign)
  /\ UNCHANGED <<backend, jfile, mcoll, conn, tasks, web, compare, loader>>

\* another process or client replaces what is persisted
OtherWriter ==
  /\ \E d \in RaceDocs \cup {Unreadable} :
       /\ d = Unreadable => OnJson
       /\ jfile' = IF OnJson THEN d ELSE jfile
       /\ mcoll' = IF OnMongo THEN d.f ELSE mcoll
  /\ <<jfile', mcoll'>> # <<jfile, mcoll>>
  /\ last' = [last EXCEPT !.foreign = TRUE]
  /\ UNCHANGED <<backend, conn, tasks, web, compare, loader>>

InitMedium ==
  /\ backend \in {"json", "mongo"}
  /\ jfile = EmptyObj
  /\ mcoll = NoFields
  /\ conn = AllConnected
  /\ tasks = NoTasks
  /\ last = Latest("new", <<>>, Undef, <<>>, Undef, "none", FALSE)
  /\ NoWeb
  /\ NoCompare
  /\ NoLoader

NextMedium ==
  \/ CallSet
  \/ CallDelete
  \/ CallGet
  \/ OtherWriter

SpecMedium == InitMedium /\ [][NextMedium]_vars

(***************************************************************************)
(* The route loader (softify).  The manifest is a JSON file of entries     *)
(* {name, route, method}; nothing checks what JSON.parse returns against   *)
(* RouteDef, so a field of an entry may be missing.  The route folder and  *)
(* the options are fixed; the build either defines require (CommonJS) or   *)
(* does not (ES module).                                                   *)
(***************************************************************************)
MaxRoutes == 3

\* a string of the manifest, and the value of a field an entry leaves out
Text(s) == [t |-> "string", s |-> s]
Missing == [t |-> "undefined"]

RouteDef(name, route, method) ==
  [name |-> name, route |-> route, method |-> method]

\* the files of options.routeFolder: the extension found and what it exports
RouteFolder ==
  [fn      |-> [ext |-> ".cjs", exports |-> "function"],
   run     |-> [ext |-> ".ts",  exports |-> "run"],
   dflt    |-> [ext |-> ".js",  exports |-> "default"],
   dfltrun |-> [ext |-> ".mjs", exports |-> "default.run"],
   empty   |-> [ext |-> ".js",  exports |-> "nothing"],
   nil     |-> [ext |-> ".cjs", exports |-> "null"],
   broken  |-> [ext |-> ".js",  exports |-> "throws"]]

\* options.rateLimiters
RateLimiters == {"/"}

\* the entries a manifest is made of
ManageEntries ==
  {RouteDef("fn", "/", Text("get")),
   RouteDef("run", "/a", Text("POST")),
   RouteDef("dflt", "/", Text("put")),
   RouteDef("dfltrun", "/a", Text("delete")),
   RouteDef("run", "/", Text("patch")),
   RouteDef("gone", "/", Text("get")),
   RouteDef("broken", "/", Text("get")),
   RouteDef("empty", "/", Text("get")),
   RouteDef("nil", "/", Text("get")),
   RouteDef("run", "/", Text("head")),
   RouteDef("run", "/", Missing)}

Manifests ==
  UNION {[1..n -> ManageEntries] : n \in 0..MaxRoutes}

\* fs.readFileSync + JSON.parse of the manage file give routes
Manifest(routes) == [ok |-> TRUE, routes |-> routes]

\* for (const ext of possibleExtensions) if (fs.existsSync(tryPath))
FilePath(name) ==
  IF name \in DOMAIN RouteFolder THEN Text(name) ELSE [t |-> "null"]

\* loadModule: import() for .ts, .js and .mjs, require() for the rest
loadModule(name) ==
  LET file == RouteFolder[name]
      isESM == file.ext \in {".mjs", ".ts", ".js"}
  IN IF file.exports = "throws" THEN "throws"
     ELSE IF isESM
          THEN IF file.exports = "function" THEN "default" ELSE file.exports
          ELSE IF requireDefined THEN file.exports ELSE "throws"

\* the chain of typeof tests on routeModule; reading a property of null throws
Handler(routeModule, name) ==
  CASE routeModule = "null" -> "TypeError"
    [] routeModule \in {"function", "run", "default", "default.run"} -> name
    [] OTHER -> "undefined"

\* route.method.toLowerCase()
toLowerCase(s) ==
  CASE s = "GET" -> "get"
    [] s = "POST" -> "post"
    [] OTHER -> s

Methods == {"get", "post", "put", "delete", "patch"}

\* app.METHOD(route.route, ...args)
Mounted(method, route, args) ==
  [method |-> method, route |-> route, args |-> args]

Line(level, about) == [level |-> level, about |-> about]

\* one pass of the loop body over route: what it logs, what it mounts and
\* whether it throws
Pass(route) ==
  IF FilePath(route.name) = [t |-> "null"]
  THEN [log |-> <<Line("warn", "Route file not found")>>,
        mount |-> <<>>, throws |-> FALSE]
  ELSE
  LET routeModule == loadModule(route.name)
      handler == Handler(routeModule, route.name)
      args == IF route.route \in RateLimiters
              THEN <<"limiter", handler>> ELSE <<handler>>
  IN IF routeModule = "throws"
     THEN [log |-> <<Line("error", "Failed to load route module")>>,
           mount |-> <<>>, throws |-> FALSE]
     ELSE IF handler = "TypeError"
     THEN [log |-> <<>>, mount |-> <<>>, throws |-> TRUE]
     ELSE IF handler = "undefined"
     THEN [log |-> <<Line("warn", "No valid handler found")>>,
           mount |-> <<>>, throws |-> FALSE]
     ELSE IF route.method = Missing
     THEN [log |-> <<>>, mount |-> <<>>, throws |-> TRUE]
     ELSE IF toLowerCase(route.method.s) \in Methods
     THEN [log |-> <<Line("info", "Route loaded")>>,
           mount |-> <<Mounted(toLowerCase(route.method.s), route.route,
                               args)>>,
           throws |-> FALSE]
     ELSE [log |-> <<Line("warn", "Unsupported HTTP method")>>,
           mount |-> <<>>, throws |-> FALSE]

\* softify(app, options) up to the loop: the manifest is read and parsed
Softify ==
  /\ settled = "pending"
  /\ IF manageFile.ok
     THEN /\ position' = 1
          /\ logs' = logs
          /\ settled' = IF manageFile.routes = <<>>
                        THEN "resolved" ELSE "looping"
     ELSE /\ position' = position
          /\ logs' = Append(logs, Line("error",
                                       "Failed to read or parse manage file"))
          /\ settled' = "resolved"
  /\ UNCHANGED <<backend, jfile, mcoll, conn, tasks, last, web, compare,
                 manageFile, requireDefined, app>>

\* one iteration of for (const route of routes), up to its continue, to the
\* end of the body or to the exception that rejects the promise
Route ==
  /\ settled = "looping"
  /\ LET pass == Pass(manageFile.routes[position])
     IN /\ logs' = logs \o pass.log
        /\ app' = app \o pass.mount
        /\ position' = IF pass.throws THEN position ELSE position + 1
        /\ settled' = IF pass.throws THEN "rejected"
                      ELSE IF position = Len(manageFile.routes)
                           THEN "resolved" ELSE "looping"
  /\ UNCHANGED <<backend, jfile, mcoll, conn, tasks, last, web, compare,
                 manageFile, requireDefined>>

InitLoader ==
  /\ backend = "json"
  /\ jfile = EmptyObj
  /\ mcoll = NoFields
  /\ conn = AllConnected
  /\ tasks = NoTasks
  /\ last = Latest("new", <<>>, Undef, <<>>, Undef, "none", FALSE)
  /\ NoWeb
  /\ NoCompare
  /\ manageFile \in {NoManifest} \cup {Manifest(r) : r \in Manifests}
  /\ requireDefined \in BOOLEAN
  /\ position = 0
  /\ app = <<>>
  /\ logs = <<>>
  /\ settled = "pending"

NextLoader ==
  \/ Softify
  \/ Route

SpecLoader == InitLoader /\ [][NextLoader]_vars

(***************************************************************************)
(* Properties                                                              *)
(***************************************************************************)
ValidKeys == Keys \ {<<>>}
Storable == SetValues \ {Undef}
Numbers == {Num(n) : n \in (0 - MaxNum)..MaxNum}

\* C1: file backend: in every reachable document, set(k, v) followed by
\* get(k) returns v, for every non-empty key k and storable value v
C1_JsonSetThenGet ==
  OnJson =>
    \A k \in ValidKeys, v \in Storable : JsonGet(JsonSet(jfile, k, v).st, k) = v

\* C2: remote backend: set(k, v) followed by get(k) returns v, whether or not
\* a record exists for the first segment of k
C2_MongoSetThenGet ==
  OnMongo =>
    \A k \in ValidKeys, v \in Storable : MongoGet(MongoSet(mcoll, k, v).st, k) = v

\* C3: after the same calls from empty stores, getAll(), get(k) and has(k)
\* agree between the two backends
C3_BackendsAgree ==
  backend = "both" =>
    /\ JsonGetAll(jfile) = MongoGetAll(mcoll)
    /\ \A k \in Keys :
         /\ JsonGet(jfile, k) = MongoGet(mcoll, k)
         /\ JsonHas(jfile, k) = MongoHas(mcoll, k)

\* C4: in both backends has(k) is true right after set(k, v), for every
\* non-empty key and storable value, the falsy ones included
C4_HasAfterSet ==
  \A k \in ValidKeys, v \in Storable :
    /\ OnJson => JsonHas(JsonSet(jfile, k, v).st, k)
    /\ OnMongo => MongoHas(MongoSet(mcoll, k, v).st, k)

\* C5: in both backends, for every key k that resolves, delete(k) followed by
\* get(k) returns undefined and has(k) returns false
C5_DeleteThenAbsent ==
  \A k \in ValidKeys :
    /\ (OnJson /\ JsonHas(jfile, k)) =>
         /\ JsonGet(JsonDelete(jfile, k).st, k) = Undef
         /\ ~JsonHas(JsonDelete(jfile, k).st, k)
    /\ (OnMongo /\ MongoHas(mcoll, k)) =>
         /\ MongoGet(MongoDelete(mcoll, k).st, k) = Undef
         /\ ~MongoHas(MongoDelete(mcoll, k).st, k)

\* C6: in both backends, delete(k) on a key that does not resolve leaves the
\* persisted document as it was and writes nothing
C6_DeleteMissingNoChange ==
  \A k \in ValidKeys :
    /\ (OnJson /\ ~JsonHas(jfile, k)) =>
         /\ JsonDelete(jfile, k).st = jfile
         /\ ~JsonDelete(jfile, k).w
    /\ (OnMongo /\ ~MongoHas(mcoll, k)) =>
         /\ MongoDelete(mcoll, k).st = mcoll
         /\ ~MongoDelete(mcoll, k).w

\* a delete that found nothing has just run on a non-empty remote store
C6_Witness ==
  /\ backend = "mongo"
  /\ last.op = "delete"
  /\ last.mout = "does not exist"
  /\ ~last.mw
  /\ KeyA \in DOMAIN mcoll
  /\ ~MongoHas(mcoll, KeyAB)

\* neither key addresses the other's value or a part of it
Unrelated(k, j) ==
  LET a == Split(k)
      b == Split(j)
  IN /\ j # <<>>
     /\ ~(Len(a) <= Len(b) /\ SubSeq(b, 1, Len(a)) = a)
     /\ ~(Len(b) <= Len(a) /\ SubSeq(a, 1, Len(b)) = b)

ObjAC(v) == Obj(<<"a">> :> Obj(<<"c">> :> v))

\* C7: delete(k) removes only the addressed field: every other top-level
\* record and every key unrelated to k keeps its value, in both backends;
\* set("a.b", 1); set("a.c", 2); delete("a.b"); getAll() is {a: {c: 2}}
C7_DeleteFrame ==
  /\ \A k \in ValidKeys :
       /\ OnJson =>
            /\ \A j \in Keys : Unrelated(k, j) =>
                 JsonGet(JsonDelete(jfile, k).st, j) = JsonGet(jfile, j)
            /\ \A f \in DOMAIN jfile.f \ {Split(k)[1]} :
                 /\ f \in DOMAIN JsonDelete(jfile, k).st.f
                 /\ JsonDelete(jfile, k).st.f[f] = jfile.f[f]
       /\ OnMongo =>
            /\ \A j \in Keys : Unrelated(k, j) =>
                 MongoGet(MongoDelete(mcoll, k).st, j) = MongoGet(mcoll, j)
            /\ \A f \in DOMAIN mcoll \ {Split(k)[1]} :
                 /\ f \in DOMAIN MongoDelete(mcoll, k).st
                 /\ MongoDelete(mcoll, k).st[f] = mcoll[f]
  /\ (OnJson /\ last.op = "new") =>
       JsonGetAll(JsonDelete(JsonSet(JsonSet(jfile, KeyAB, Num(1)).st,
                                     KeyAC, Num(2)).st, KeyAB).st) = ObjAC(Num(2))
  /\ (OnMongo /\ last.op = "new") =>
       MongoGetAll(MongoDelete(MongoSet(MongoSet(mcoll, KeyAB, Num(1)).st,
                                        KeyAC, Num(2)).st, KeyAB).st) = ObjAC(Num(2))

\* delete("a.b") has just removed b from {a: {b: .., c: "x"}} in the file
C7_Witness ==
  /\ backend = "json"
  /\ last.op = "delete"
  /\ last.jout = "done"
  /\ jfile = ObjAC(Str(<<"x">>))

C9_MongoAddAccumulates ==
  OnMongo =>
    \A k \in ValidKeys, n \in Numbers :
      (MongoHas(mcoll, k) /\ MongoGet(mcoll, k).t = "num") =>
        /\ MongoGet(MongoAdd(mcoll, k, n).st, k) = NumAdd(MongoGet(mcoll, k), n)
        /\ MongoGet(MongoSubtract(mcoll, k, n).st, k) = NumSub(MongoGet(mcoll, k), n)

\* C10: in both backends add(k, n) and subtract(k, n) on a key that holds a
\* value that is not a number leave the persisted document as it was
C10_AddNonNumberNoChange ==
  \A k \in ValidKeys, n \in Numbers :
    /\ (OnJson /\ JsonHas(jfile, k) /\ TypeOf(JsonGet(jfile, k)) # "number") =>
         /\ JsonAdd(jfile, k, n).st = jfile
         /\ JsonSubtract(jfile, k, n).st = jfile
    /\ (OnMongo /\ MongoHas(mcoll, k) /\ TypeOf(MongoGet(mcoll, k)) # "number") =>
         /\ MongoAdd(mcoll, k, n).st = mcoll
         /\ MongoSubtract(mcoll, k, n).st = mcoll

\* add has just been refused on a.b, which holds a string inside the record a
C10_Witness ==
  /\ backend = "mongo"
  /\ last.op = "add"
  /\ last.mout = "not a number"
  /\ ~last.mw
  /\ MongoGet(mcoll, KeyAB) = Str(<<"x">>)

\* the non-empty keys and the values a run's push and pull calls are made with
ListKeys == KeysIn \ {<<>>}
ListValues == PushValuesIn \ {Undef}

\* the array literal [v1, ..., vn]
ArrOf(e) == Arr(e, NoFields)

\* C11: file backend: push(k, v) on a key that is absent or holds a non-array
\* makes get(k) the array [v]; on an array it appends v; two pushes from an
\* absent key leave [v1, v2] in call order
C11_JsonPushAppends ==
  OnJson =>
    \A k \in ListKeys, v \in ListValues :
      LET cur == JsonGet(jfile, k)
          pushed == JsonPush(jfile, k, v).st
      IN /\ ~IsArray(cur) => JsonGet(pushed, k) = ArrOf(<<v>>)
         /\ IsArray(cur) => JsonGet(pushed, k) = ArrOf(Append(cur.e, v))
         /\ ~JsonHas(jfile, k) =>
              \A v2 \in ListValues :
                JsonGet(JsonPush(pushed, k, v2).st, k) = ArrOf(<<v, v2>>)

\* the scalars among the values of push and pull
ListScalars == {v \in ListValues : TypeOf(v) # "object"}

\* C12: remote backend, single-segment key k with no record: after push(k, x);
\* push(k, y) get(k) is [x, y], and after pull(k, x) it is [y]
C12_MongoPushPull ==
  OnMongo =>
    \A k \in {key \in ListKeys : Len(Split(key)) = 1} :
      \A x \in ListScalars, y \in ListScalars :
        (x # y /\ k \notin DOMAIN mcoll) =>
          LET two == MongoPush(MongoPush(mcoll, k, x).st, k, y).st
          IN /\ MongoGet(two, k) = ArrOf(<<x, y>>)
             /\ MongoGet(MongoPull(two, k, x).st, k) = ArrOf(<<y>>)

\* the element e is one that pull(k, v) is to remove
Matches(e, v) ==
  IF TypeOf(v) = "object" /\ v # Null
  THEN deepEqual(e, v) \/ partialMatch(e, v)
  ELSE StrictEq(e, v)

\* the elements of e that do not match v, in their order
Filtered(e, v) ==
  LET Keep(x) == ~Matches(x, v)
  IN SelectSeq(e, Keep)

\* file backend: unpush(k, v) on an array leaves the array filtered of the
\* elements matching v
C13_JsonPart ==
  OnJson =>
    \A k \in ListKeys, v \in ListValues :
      IsArray(JsonGet(jfile, k)) =>
        JsonGet(JsonUnpush(jfile, k, v).st, k)
          = ArrOf(Filtered(JsonGet(jfile, k).e, v))

\* C13: in both backends pull(k, v) on an array-valued key stores the array
\* filtered of every element matching v (deep-equal or superset-match for an
\* object v, === for a scalar v), the others kept in their order
C13_PullFilters ==
  /\ C13_JsonPart
  /\ OnMongo =>
       \A k \in ListKeys, v \in ListValues :
         IsArray(MongoGet(mcoll, k)) =>
           MongoGet(MongoPull(mcoll, k, v).st, k)
             = ArrOf(Filtered(MongoGet(mcoll, k).e, v))

\* pull(k, v) has nothing to remove from the value cur of k
NothingToPull(cur, v) ==
  IF IsArray(cur) THEN Filtered(cur.e, v) = cur.e ELSE TRUE

\* C14: in both backends pull(k, v) leaves the persisted document as it was
\* and writes nothing when k does not resolve to an array or no element of
\* the array matches v
C14_PullNoMatchNoChange ==
  \A k \in ListKeys, v \in ListValues :
    /\ (OnJson /\ NothingToPull(JsonGet(jfile, k), v)) =>
         /\ JsonUnpush(jfile, k, v).st = jfile
         /\ ~JsonUnpush(jfile, k, v).w
    /\ (OnMongo /\ NothingToPull(MongoGet(mcoll, k), v)) =>
         /\ MongoPull(mcoll, k, v).st = mcoll
         /\ ~MongoPull(mcoll, k, v).w

\* pull has just found no match in the array under a.b, in both backends
C14_Witness ==
  /\ last.op = "pull"
  /\ last.jout = "no match" /\ ~last.jw
  /\ last.mout = "no match" /\ ~last.mw
  /\ IsArray(JsonGet(jfile, KeyAB))
  /\ MongoGet(mcoll, KeyAB) = JsonGet(jfile, KeyAB)

\* C15: deleteAll(approve) erases every top-level record when approve is one
\* of the two acknowledgement sentences, and leaves the document as it was
\* for every other argument, in both backends
C15_DeleteAllOnlyApproved ==
  \A approve \in Approvals :
    IF approve \in {ApproveTR, ApproveEN}
    THEN /\ OnJson => JsonGetAll(JsonDeleteAll(jfile, approve).st) = EmptyObj
         /\ OnMongo => DOMAIN MongoDeleteAll(mcoll, approve).st = {}
    ELSE /\ OnJson => JsonDeleteAll(jfile, approve).st = jfile
         /\ OnMongo => MongoDeleteAll(mcoll, approve).st = mcoll

\* an approved deleteAll has just removed the records of the collection
C15_Witness ==
  /\ backend = "mongo"
  /\ last.op = "deleteAll"
  /\ last.mout = "done"
  /\ last.mw
  /\ DOMAIN mcoll = {}

RECURSIVE Overwrites(_, _)
\* writing the path keys into the object o replaces something o holds: the
\* final segment is there already, or a segment on the way is there and is
\* not an object
Overwrites(o, keys) ==
  IF keys[1] \notin DOMAIN o.f THEN FALSE
  ELSE IF Len(keys) = 1 THEN TRUE
  ELSE IF o.f[keys[1]].t # "obj" THEN TRUE
  ELSE Overwrites(o.f[keys[1]], Tail(keys))

RECURSIVE Nested(_, _, _)
\* the object o with v added under the nesting that the path keys implies:
\* one level of object per segment, everything else as it is in o
Nested(o, keys, v) ==
  IF Len(keys) = 1 THEN Obj((keys[1] :> v) @@ o.f)
  ELSE LET sub == IF keys[1] \in DOMAIN o.f THEN o.f[keys[1]] ELSE EmptyObj
       IN Obj((keys[1] :> Nested(sub, Tail(keys), v)) @@ o.f)

KeyABC == <<"a", ".", "b", ".", "c">>

\* C16: a set(k, v) that overwrites nothing adds v to getAll() under the
\* nesting implied by k and changes nothing else, in both backends; so from
\* the empty store set calls that do not overwrite one another leave exactly
\* the nested mapping of their keys, e.g. set("a.b.c", v) leaves {a: {b: {c: v}}}
C16_GetAllNested ==
  \A k \in ValidKeys \cup {KeyABC}, v \in Storable :
    /\ (OnJson /\ ~Overwrites(JsonGetAll(jfile), Split(k))) =>
         JsonGetAll(JsonSet(jfile, k, v).st) = Nested(JsonGetAll(jfile), Split(k), v)
    /\ (OnMongo /\ ~Overwrites(MongoGetAll(mcoll), Split(k))) =>
         MongoGetAll(MongoSet(mcoll, k, v).st) = Nested(MongoGetAll(mcoll), Split(k), v)
    /\ (OnJson /\ last.op = "new") =>
         JsonGetAll(JsonSet(jfile, KeyABC, v).st)
           = Obj(<<"a">> :> Obj(<<"b">> :> Obj(<<"c">> :> v)))
    /\ (OnMongo /\ last.op = "new") =>
         MongoGetAll(MongoSet(mcoll, KeyABC, v).st)
           = Obj(<<"a">> :> Obj(<<"b">> :> Obj(<<"c">> :> v)))

\* three set calls that do not overwrite one another have left their nested
\* mapping in the collection
C16_Witness ==
  /\ backend = "mongo"
  /\ last.op = "set"
  /\ last.mout = "done"
  /\ MongoGetAll(mcoll)
       = Obj((<<"a">> :> Obj((<<"b">> :> Num(0)) @@ (<<"c">> :> Str(<<"x">>))))
             @@ (<<"b">> :> Arr1))

EmptyKey == <<>>

\* the call has been refused for its key and has left the medium st alone
Refused(r, st) == r.st = st /\ ~r.w /\ r.out = "invalid key"

\* C17: called with the empty key, get returns undefined, has returns false,
\* and set, add, subtract, delete, push and pull/unpush are refused (a
\* warning, no exception) with the persisted document unchanged, in both
\* backends
C17_EmptyKeyNoEffect ==
  \A v \in SetValues \cup AddValues \cup PushValues :
    /\ OnJson =>
         /\ JsonGet(jfile, EmptyKey) = Undef
         /\ ~JsonHas(jfile, EmptyKey)
         /\ Refused(JsonSet(jfile, EmptyKey, v), jfile)
         /\ Refused(JsonAdd(jfile, EmptyKey, v), jfile)
         /\ Refused(JsonSubtract(jfile, EmptyKey, v), jfile)
         /\ Refused(JsonDelete(jfile, EmptyKey), jfile)
         /\ Refused(JsonPush(jfile, EmptyKey, v), jfile)
         /\ Refused(JsonUnpush(jfile, EmptyKey, v), jfile)
    /\ OnMongo =>
         /\ MongoGet(mcoll, EmptyKey) = Undef
         /\ ~MongoHas(mcoll, EmptyKey)
         /\ Refused(MongoSet(mcoll, EmptyKey, v), mcoll)
         /\ Refused(MongoAdd(mcoll, EmptyKey, v), mcoll)
         /\ Refused(MongoSubtract(mcoll, EmptyKey, v), mcoll)
         /\ Refused(MongoDelete(mcoll, EmptyKey), mcoll)
         /\ Refused(MongoPush(mcoll, EmptyKey, v), mcoll)
         /\ Refused(MongoPull(mcoll, EmptyKey, v), mcoll)

\* a set with the empty key has just been refused on a file that holds data
C17_Witness ==
  /\ backend = "json"
  /\ last.op = "set"
  /\ last.jout = "invalid key"
  /\ ~last.jw
  /\ JsonGet(jfile, KeyAB) = Str(<<"x">>)

\* the remote object is called on and the step is one of the operations
MongoOpStep == OnMongo /\ last'.op \in OpNames

\* the operation of the step ended the process without reaching the store
MongoHalted == conn'.exited /\ mcoll' = mcoll /\ last'.mout = "exit"

\* C18 as stated: an operation reaches the records only when connect() has
\* completed and disconnect() has not been called since; otherwise it
\* terminates the process and leaves the store alone
C18_NoCallOfDisconnectSince ==
  [][MongoOpStep =>
       IF conn.mongo /\ conn.model /\ ~conn.disconnectCalled
       THEN ~conn'.exited
       ELSE MongoHalted]_vars

\* C18: remote backend: an operation reaches the records only when connect()
\* has completed and no disconnect() has completed since; invoked on an
\* object that is not connected it terminates the process and leaves the
\* store as it was
C18_ConnectedOnly ==
  [][MongoOpStep =>
       IF conn.mongo
       THEN ~conn'.exited /\ last'.mout # "exit"
       ELSE MongoHalted]_vars

\* an operation called after a disconnect() has ended the process, the
\* collection still holding its record
C18_Witness ==
  /\ backend = "mongo"
  /\ conn.exited
  /\ conn.disconnectCalled
  /\ last.op = "add"
  /\ last.mout = "exit"
  /\ MongoGet(mcoll, KeyAB) = Num(1)

\* the file object is called on and the step is one of the operations
JsonOpStep == OnJson /\ last'.op \in OpNames

\* C19 as stated: an operation on the file backend never halts the process,
\* connect() called before it or not: it is carried out
C19_JsonNeverHalts ==
  [][JsonOpStep => (~conn'.exited /\ last'.jout # "exit")]_vars

\* C19: file backend: an operation invoked before connect() has completed
\* ends the process (a warning, then process.exit) and leaves the file as it
\* was; once connect() has completed the operation is carried out
C19_JsonHaltsUnconnected ==
  [][JsonOpStep =>
       IF conn.json
       THEN ~conn'.exited /\ last'.jout # "exit"
       ELSE conn'.exited /\ jfile' = jfile /\ last'.jout = "exit"]_vars

\* an operation called on a file object that never connected has ended the
\* process
C19_Witness ==
  /\ backend = "json"
  /\ ~conn.json
  /\ conn.exited
  /\ last.op \in OpNames
  /\ last.jout = "exit"

\* C20: delete(k) hands back true when the key existed and was removed and
\* false when it did not exist, in both backends
C20_DeleteReturnsFlag ==
  \A k \in ValidKeys :
    /\ OnJson =>
         JsonDeleteReturn(JsonDelete(jfile, k).out) = Bool(JsonHas(jfile, k))
    /\ OnMongo =>
         MongoDeleteReturn(MongoDelete(mcoll, k).out) = Bool(MongoHas(mcoll, k))

\* the value {b: "x", c: 1} that the example stores under one key
ObjBC == Obj((<<"b">> :> Str(<<"x">>)) @@ (<<"c">> :> Num(1)))

\* C21: remote backend: once every value that was set has been deleted
\* again, getAll() is {}: from the empty collection set("b", "x");
\* set("a", {b, c}); delete("b"); delete("a.b"); delete("a.c") leaves {}, and
\* so does set(k, v); delete(k) for every key k
C21_MongoDeleteLeavesNothing ==
  (OnMongo /\ DOMAIN mcoll = {}) =>
    /\ LET s1 == MongoSet(mcoll, KeyB, Str(<<"x">>)).st
           s2 == MongoSet(s1, KeyA, ObjBC).st
           d1 == MongoDelete(s2, KeyB).st
           d2 == MongoDelete(d1, KeyAB).st
           d3 == MongoDelete(d2, KeyAC).st
       IN MongoGetAll(d3) = EmptyObj
    /\ \A k \in ValidKeys, v \in Storable :
         MongoGetAll(MongoDelete(MongoSet(mcoll, k, v).st, k).st) = EmptyObj


BothDone == \A i \in Callers : tasks[i].pc = "done"
BothOp(op) == \A i \in Callers : tasks[i].call.op = op
NoneStale == \A i \in Callers : ~tasks[i].stale

\* C22: file backend, two callers sharing the file.  The read and the write of
\* one operation are separate steps, so when two set calls on keys of different
\* first segments have both finished, the file holds both values exactly when
\* neither caller wrote from a copy that the other had overwritten in the
\* meantime; otherwise the last writer wins and the other update is lost.
C22_LastWriterWins ==
  (OnJson /\ BothDone /\ BothOp("set")
     /\ FirstSegment(tasks[1].call.key) # FirstSegment(tasks[2].call.key)) =>
    ((\A i \in Callers :
        JsonGet(jfile, tasks[i].call.key) = tasks[i].call.value)
       <=> NoneStale)

\* set("a", 1) and set("b", 2) on an empty file have both finished and the
\* file holds only b
C22_Witness ==
  /\ OnJson /\ BothDone
  /\ tasks[1].call = Call("set", KeyA, Num(1))
  /\ tasks[2].call = Call("set", KeyB, Num(2))
  /\ tasks[1].start = EmptyObj /\ tasks[2].start = EmptyObj
  /\ jfile = Obj(<<"b">> :> Num(2))

\* the collection after call c has run twice, one run after the other
Twice(c, coll) == MongoCall(c, MongoCall(c, coll).st).st

\* C23: remote backend, two add(k, n) calls, or two push(k, v) calls, on the
\* same key started from the same store without awaiting each other.  Where
\* running the call twice differs from running it once, the value of k after
\* both have finished is that of two runs exactly when neither call saved
\* after the other had saved behind its read; otherwise the final value
\* reflects one update only.
C23_MongoLostUpdate ==
  (/\ OnMongo /\ BothDone
   /\ tasks[1].call = tasks[2].call
   /\ tasks[1].call.op \in {"add", "push"}
   /\ tasks[1].start = tasks[2].start) =>
    LET c == tasks[1].call
        once == MongoGet(MongoCall(c, tasks[1].start).st, c.key)
        twice == MongoGet(Twice(c, tasks[1].start), c.key)
    IN (once # twice) => ((MongoGet(mcoll, c.key) = twice) <=> NoneStale)

\* two add("a.b", 1) on {a: {b: 0}} have both finished and a.b is 1
C23_Witness ==
  /\ OnMongo /\ BothDone
  /\ \A i \in Callers :
       /\ tasks[i].call = Call("add", KeyAB, Num(1))
       /\ tasks[i].start = (<<"a">> :> Obj(<<"b">> :> Num(0)))
  /\ MongoGet(mcoll, KeyAB) = Num(1)

DifferentRecords ==
  FirstSegment(tasks[1].call.key) # FirstSegment(tasks[2].call.key)

\* C24: remote backend, two concurrent calls whose keys have different first
\* segments.  Under every interleaving, once both have finished, the record of
\* each call's first segment is what that call alone makes of the store it
\* started from: the other call has neither changed it nor undone its change.
C24_RecordsIndependent ==
  (OnMongo /\ BothDone /\ DifferentRecords) =>
    \A i \in Callers :
      LET k0 == FirstSegment(tasks[i].call.key)
      IN FindOne(mcoll, k0)
           = FindOne(MongoCall(tasks[i].call, tasks[i].start).st, k0)

\* two calls on different records, both started before either had written,
\* have both finished and both changed their record
C24_Witness ==
  /\ OnMongo /\ BothDone /\ DifferentRecords
  /\ tasks[1].start = tasks[2].start
  /\ \A i \in Callers :
       FindOne(mcoll, FirstSegment(tasks[i].call.key))
         # FindOne(tasks[i].start, FirstSegment(tasks[i].call.key))

\* the requests of client ip that limiter l handed on to next(), by position
PassedOn(l, ip) ==
  {i \in DOMAIN served :
     served[i].l = l /\ served[i].ip = ip /\ served[i].status = Passed}

\* C25: each middleware limits every client address: of the requests of one
\* address that it hands on to next(), no more than limit arrive within any
\* span shorter than windowMs.
C25_AtMostLimitPassed ==
  \A l \in Limiters, ip \in IPs :
    \A i \in PassedOn(l, ip) :
      Cardinality({j \in PassedOn(l, ip) :
                     /\ served[j].at <= served[i].at
                     /\ served[i].at - served[j].at < Options[l].windowMs})
        <= Options[l].limit

RECURSIVE PrefixFails(_, _)
\* some proper prefix of keys leads, through the objects nested in object o, to
\* nothing or to a string, a number or a boolean
PrefixFails(o, keys) ==
  IF Len(keys) < 2 THEN FALSE
  ELSE LET c == IF keys[1] \in DOMAIN o.f THEN o.f[keys[1]] ELSE Undef
       IN IF c.t \in {"undef", "str", "num", "nan", "bool"} THEN TRUE
          ELSE IF c.t = "obj" THEN PrefixFails(c, Tail(keys))
          ELSE FALSE

\* C26: read-resolve never invents a value: whenever a proper prefix of key k
\* leads to nothing or to a string, number or boolean, get(k) returns
\* undefined and has(k) returns false, on both backends.
C26_ReadResolveNotFound ==
  \A k \in ValidKeys :
    /\ (OnJson /\ PrefixFails(jfile, Split(k))) =>
         (JsonGet(jfile, k) = Undef /\ ~JsonHas(jfile, k))
    /\ (OnMongo /\ PrefixFails(Obj(mcoll), Split(k))) =>
         (MongoGet(mcoll, k) = Undef /\ ~MongoHas(mcoll, k))

\* C27: write-resolve creates or coerces at every intermediate position, the
\* first segment included: whenever a proper prefix of key k leads to nothing
\* or to a string, number or boolean, set(k, v) is followed by get(k) = v,
\* add(k, n) by get(k) = n and push(k, v) by get(k) = [v], on both backends.
C27_WriteResolveCoerces ==
  \A k \in ValidKeys, v \in Storable :
    /\ (OnJson /\ PrefixFails(jfile, Split(k))) =>
         /\ JsonGet(JsonSet(jfile, k, v).st, k) = v
         /\ JsonGet(JsonAdd(jfile, k, Num(1)).st, k) = Num(1)
         /\ JsonGet(JsonPush(jfile, k, v).st, k) = ArrOf(<<v>>)
    /\ (OnMongo /\ PrefixFails(Obj(mcoll), Split(k))) =>
         /\ MongoGet(MongoSet(mcoll, k, v).st, k) = v
         /\ MongoGet(MongoAdd(mcoll, k, Num(1)).st, k) = Num(1)
         /\ MongoGet(MongoPush(mcoll, k, v).st, k) = ArrOf(<<v>>)

\* C28: no path operation reaches an Array element through a path segment:
\* when a holds an Array, get("a.0") returns undefined, delete("a.0") changes
\* nothing and set("a.0", v) leaves a = {0: v}, a fresh object in the array's
\* place, on both backends.
C28_NoArrayTraversal ==
  /\ (OnJson /\ IsArray(JsonGet(jfile, KeyA))) =>
       /\ JsonGet(jfile, KeyA0) = Undef
       /\ JsonDelete(jfile, KeyA0).st = jfile
       /\ \A v \in Storable :
            JsonGet(JsonSet(jfile, KeyA0, v).st, KeyA) = Obj(<<"0">> :> v)
  /\ (OnMongo /\ IsArray(MongoGet(mcoll, KeyA))) =>
       /\ MongoGet(mcoll, KeyA0) = Undef
       /\ MongoDelete(mcoll, KeyA0).st = mcoll
       /\ \A v \in Storable :
            MongoGet(MongoSet(mcoll, KeyA0, v).st, KeyA) = Obj(<<"0">> :> v)

RECURSIVE StructurallyEqual(_, _)
\* structural equality of two stored values: the same kind, and equal scalars,
\* or objects of the same keys with equal values, or arrays of the same length
\* with equal elements
StructurallyEqual(a, b) ==
  IF a.t # b.t THEN FALSE
  ELSE IF a.t = "obj"
       THEN /\ DOMAIN a.f = DOMAIN b.f
            /\ \A k \in DOMAIN a.f : StructurallyEqual(a.f[k], b.f[k])
  ELSE IF a.t = "arr"
       THEN /\ Len(a.e) = Len(b.e)
            /\ \A i \in 1..Len(a.e) : StructurallyEqual(a.e[i], b.e[i])
  ELSE a = b

\* C29: deepEqual(a, b), in both classes, is true exactly when a and b are
\* structurally equal; it gives the same answer with the operands exchanged
\* and is true of a value and itself.
C29_DeepEqualStructural ==
  (result.fn = "deepEqual") =>
    LET a == operands[1]
        b == operands[2]
    IN /\ result.json = StructurallyEqual(a, b)
       /\ result.mongo = StructurallyEqual(a, b)
       /\ result.json = deepEqual(b, a)
       /\ result.mongo = mongoDeepEqual(b, a)
       /\ (a = b) => (result.json /\ result.mongo)

\* {a: {c: 1, d: 1}} has been compared with a structurally equal object and
\* found equal
C29_Witness ==
  /\ result.fn = "deepEqual"
  /\ operands[1] = Obj(<<"a">> :> ObjCD)
  /\ operands[2] = Obj(<<"a">> :> ObjCD)
  /\ result.json /\ result.mongo

\* an Object or an Array
IsObject(v) == v.t \in {"obj", "arr"}

\* every key of partial is a key of target, with a structurally equal value
SubsetOf(target, partial) ==
  \A key \in OwnKeys(partial) :
    /\ key \in OwnKeys(target)
    /\ StructurallyEqual(PropGet(target, key), PropGet(partial, key))

RECURSIVE Lookup(_, _)
\* what the path keys leads to through the objects nested in o, if anything
Lookup(o, keys) ==
  IF keys = <<>> THEN o
  ELSE IF o.t = "obj" /\ keys[1] \in DOMAIN o.f
       THEN Lookup(o.f[keys[1]], Tail(keys))
       ELSE Undef

\* the records or top-level fields of a medium other than that of segment k0
Others(medium, k0) ==
  LET f == IF medium = Unreadable THEN NoFields
           ELSE IF OnJson THEN medium.f ELSE medium
  IN [k \in DOMAIN f \ {k0} |-> f[k]]

\* C31: nothing is cached between calls: what get returns is what the medium
\* holds at the call, and what set or delete writes back keeps, outside the
\* record of the key, what the medium held at the call, even when another
\* writer has changed the medium since the instance's previous call.
C31_NoCachedDocument ==
  (~last.foreign /\ last.before # Unreadable) =>
    /\ (last.op = "get") =>
         last.ret = Lookup(IF OnJson THEN jfile ELSE Obj(mcoll), Split(last.key))
    /\ (last.op \in {"set", "delete"} /\ last.how \in {"written", "none"}) =>
         Others(Medium, FirstSegment(last.key))
           = Others(last.before, FirstSegment(last.key))

\* another writer changed the medium after the instance's previous call, and
\* the instance's set has kept a record that only the other writer stored
C31_Witness ==
  /\ last.op = "set" /\ last.how = "written" /\ last.changed /\ ~last.foreign
  /\ last.key = KeyA
  /\ Lookup(IF OnJson THEN jfile ELSE Obj(mcoll), <<<<"b">>>>) = Num(0)

\* C32: when the write of a mutating call fails, the call returns and the
\* medium is exactly what it was before the call.
C32_FailedWriteNoEffect ==
  (~last.foreign /\ last.how \in {"refused", "torn"}) =>
    Medium = last.before

\* C34: file backend: an operation that cannot read or parse the file goes on
\* from an empty document: get finds nothing, and set(k, v) overwrites the
\* file with a document holding the path of k only.
C34_UnreadableFileIsEmpty ==
  (OnJson /\ ~last.foreign /\ last.before = Unreadable) =>
    /\ (last.op = "get") => last.ret = Undef
    /\ (last.op = "set") =>
         /\ last.how # "none"
         /\ (last.how = "written") =>
              jfile = Nested(EmptyObj, Split(last.key), last.value)

\* set("a.b", 1) has found the file unreadable and left {a: {b: 1}}
C34_Witness ==
  /\ OnJson /\ ~last.foreign /\ last.before = Unreadable
  /\ last.op = "set" /\ last.how = "written" /\ last.key = KeyAB
  /\ jfile = Obj(<<"a">> :> Obj(<<"b">> :> Num(1)))

\* keys with an empty segment: "a.", ".a" and "a..b"
EmptySegmentKeys ==
  {<<"a", ".">>, <<".", "a">>, <<"a", ".", ".", "b">>}

RECURSIVE NoEmptyName(_)
\* no field of v, at any depth, is named ""
NoEmptyName(v) ==
  CASE v.t = "obj" ->
         /\ <<>> \notin DOMAIN v.f
         /\ \A k \in DOMAIN v.f : NoEmptyName(v.f[k])
    [] v.t = "arr" -> \A i \in 1..Len(v.e) : NoEmptyName(v.e[i])
    [] OTHER -> TRUE

\* C33: every field name a path operation creates is a non-empty string: set
\* with a key that has an empty segment stores no field or record named "".
C33_NoEmptyFieldName ==
  \A k \in EmptySegmentKeys, v \in Storable :
    /\ OnJson => NoEmptyName(JsonGetAll(JsonSet(jfile, k, v).st))
    /\ OnMongo => NoEmptyName(MongoGetAll(MongoSet(mcoll, k, v).st))

\* C35: in every reachable state of either backend and for every key k,
\* has(k) is true exactly when get(k) returns a value.
C35_HasIffGet ==
  \A k \in ValidKeys :
    /\ OnJson => (JsonHas(jfile, k) <=> JsonGet(jfile, k) # Undef)
    /\ OnMongo => (MongoHas(mcoll, k) <=> MongoGet(mcoll, k) # Undef)

\* key j is a prefix of key k, segment by segment
IsPrefix(j, k) ==
  /\ Len(Split(j)) <= Len(Split(k))
  /\ SubSeq(Split(k), 1, Len(Split(j))) = Split(j)

RECURSIVE PrefixesAreObjects(_, _)
\* every proper prefix of keys is absent from o or leads to an object
PrefixesAreObjects(o, keys) ==
  IF Len(keys) < 2 THEN TRUE
  ELSE IF keys[1] \notin DOMAIN o.f THEN TRUE
  ELSE IF o.f[keys[1]].t # "obj" THEN FALSE
  ELSE PrefixesAreObjects(o.f[keys[1]], Tail(keys))

\* C36: when every proper prefix of k is absent or an Object, set(k, v)
\* changes only the subtree of k: get(j) is the same before and after for
\* every key j that is neither a prefix nor an extension of k, on both
\* backends.
C36_SetFrame ==
  \A k \in ValidKeys, v \in Storable :
    /\ (OnJson /\ PrefixesAreObjects(jfile, Split(k))) =>
         LET after == JsonSet(jfile, k, v).st
         IN \A j \in ValidKeys \cup {KeyABC} :
              (~IsPrefix(j, k) /\ ~IsPrefix(k, j)) =>
                JsonGet(after, j) = JsonGet(jfile, j)
    /\ (OnMongo /\ PrefixesAreObjects(Obj(mcoll), Split(k))) =>
         LET after == MongoSet(mcoll, k, v).st
         IN \A j \in ValidKeys \cup {KeyABC} :
              (~IsPrefix(j, k) /\ ~IsPrefix(k, j)) =>
                MongoGet(after, j) = MongoGet(mcoll, j)

\* a holds {b: ..} and b holds a value; set("a.c", v) is about to leave both
\* a.b and b as they are
C36_Witness ==
  /\ PrefixesAreObjects(IF OnJson THEN jfile ELSE Obj(mcoll), Split(KeyAC))
  /\ (IF OnJson THEN JsonGet(jfile, KeyAB) ELSE MongoGet(mcoll, KeyAB)) # Undef
  /\ (IF OnJson THEN JsonGet(jfile, KeyB) ELSE MongoGet(mcoll, KeyB)) # Undef
  /\ last.op = "set"

\* the elements of e that are neither an object nor an array, in their order
ScalarsOf(e) ==
  LET Keep(x) == ~IsObject(x)
  IN SelectSeq(e, Keep)

\* file backend: unpush(k, {}) leaves the scalar and null elements
C37_JsonPart ==
  OnJson =>
    \A k \in ListKeys :
      IsArray(JsonGet(jfile, k)) =>
        JsonGet(JsonUnpush(jfile, k, EmptyObj).st, k)
          = ArrOf(ScalarsOf(JsonGet(jfile, k).e))

\* C37: pull(k, {}) removes every element of the array under k that is a
\* non-null object or an array and keeps every scalar element, on both
\* backends.
C37_PullEmptyProbe ==
  /\ C37_JsonPart
  /\ OnMongo =>
       \A k \in ListKeys :
         IsArray(MongoGet(mcoll, k)) =>
           MongoGet(MongoPull(mcoll, k, EmptyObj).st, k)
             = ArrOf(ScalarsOf(MongoGet(mcoll, k).e))

\* the requests of client ip to limiter l, by position
RequestsOf(l, ip) ==
  {i \in DOMAIN served : served[i].l = l /\ served[i].ip = ip}

\* C38, as claimed: a client that was answered 429 and sends its next request
\* to the same limiter less than windowMs later is answered 429 again.
C38_KeepsBeingRejected ==
  \A l \in Limiters, ip \in IPs :
    \A i \in RequestsOf(l, ip), j \in RequestsOf(l, ip) :
      (/\ i < j
       /\ \A m \in RequestsOf(l, ip) : ~(i < m /\ m < j)
       /\ served[i].status = TooMany
       /\ served[j].at - served[i].at < Options[l].windowMs) =>
        served[j].status = TooMany

\* the timestamps recorded for ip that are less than windowMs old
Recorded(ip, windowMs) ==
  IF ip \notin DOMAIN ipStore THEN {}
  ELSE {n \in DOMAIN ipStore[ip] : now - ipStore[ip][n] < windowMs}

\* C38: a request is answered 429 exactly when the timestamps recorded for its
\* IP in the preceding windowMs, of admitted and rejected requests alike,
\* together with its own exceed limit; its own timestamp is recorded whatever
\* the answer; a client with no recorded request less than windowMs old is
\* admitted.
C38_DecisionRule ==
  [][(Len(served') = Len(served) + 1) =>
       LET r == served'[Len(served')]
           n == Cardinality(Recorded(r.ip, Options[r.l].windowMs))
       IN /\ (r.status = TooMany) <=> (n + 1 > Options[r.l].limit)
          /\ Len(ipStore'[r.ip]) = n + 1
          /\ ipStore'[r.ip][n + 1] = now
          /\ (n = 0) => (r.status = Passed)]_vars

\* a client has been rejected by a limiter and later admitted by it again
C38_Witness ==
  \E l \in Limiters, ip \in IPs :
    \E i \in RequestsOf(l, ip), j \in RequestsOf(l, ip) :
      /\ i < j
      /\ served[i].status = TooMany
      /\ served[j].status = Passed

\* the log of ip after a step holds n timestamps, each less than windowMs old
PrunedTo(ip, n, windowMs) ==
  IF n = 0 THEN ip \notin DOMAIN ipStore'
  ELSE /\ ip \in DOMAIN ipStore'
       /\ Len(ipStore'[ip]) = n
       /\ \A m \in 1..n : now - ipStore'[ip][m] < windowMs

\* C39: the limiters share one store of timestamps per IP.  A request to any
\* limiter is answered by counting what the store holds for the IP, whichever
\* limiter recorded it, and leaves the log of the IP pruned to that limiter's
\* windowMs plus its own timestamp; a cleanup timer leaves every log pruned
\* to its limiter's windowMs, whatever another limiter would still count.
C39_SharedStore ==
  [][/\ (Len(served') = Len(served) + 1) =>
          LET r == served'[Len(served')]
              w == Options[r.l].windowMs
              n == Cardinality(Recorded(r.ip, w))
          IN /\ PrunedTo(r.ip, n + 1, w)
             /\ (r.status = TooMany) <=> (n + 1 > Options[r.l].limit)
             /\ \A ip \in IPs \ {r.ip} :
                  /\ (ip \in DOMAIN ipStore') = (ip \in DOMAIN ipStore)
                  /\ (ip \in DOMAIN ipStore) => (ipStore'[ip] = ipStore[ip])
     /\ (served' = served /\ ipStore' # ipStore) =>
          \E l \in Limiters :
            \A ip \in IPs :
              PrunedTo(ip, Cardinality(Recorded(ip, Options[l].windowMs)),
                       Options[l].windowMs)]_vars

\* a limiter has rejected the only request it ever received from a client,
\* counting a request that another limiter handled
C39_Witness ==
  \E j \in DOMAIN served :
    /\ served[j].status = TooMany
    /\ RequestsOf(served[j].l, served[j].ip) = {j}
    /\ \E i \in 1..(j - 1) :
         served[i].ip = served[j].ip /\ served[i].l # served[j].l

\* the reasons the claim gives for skipping an entry of the manifest
FileMissing(e) == e.name \notin DOMAIN RouteFolder
LoadFails(e) == ~FileMissing(e) /\ loadModule(e.name) = "throws"
NoHandlerFunction(e) ==
  /\ ~FileMissing(e)
  /\ loadModule(e.name) \in {"nothing", "null"}
Unsupported(e) ==
  IF e.method = Missing THEN TRUE ELSE toLowerCase(e.method.s) \notin Methods
Skipped(e) ==
  FileMissing(e) \/ LoadFails(e) \/ NoHandlerFunction(e) \/ Unsupported(e)

\* the entries softify is through with
Processed ==
  CASE settled = "pending" -> <<>>
    [] settled = "looping" -> SubSeq(manageFile.routes, 1, position - 1)
    [] OTHER -> manageFile.routes

\* C40: the application holds, in manifest order and once each, the route
\* of every processed entry that has a file, loads, exposes a handler
\* function and names a supported method, under that method and route and
\* with that handler; each other processed entry has left one warning or
\* error line instead; and with a manifest that cannot be read or parsed no
\* route is mounted.  When softify has ended, every entry is processed.
C40_EntriesIndependent ==
  IF ~manageFile.ok
  THEN app = <<>>
  ELSE LET kept == SelectSeq(Processed, LAMBDA e : ~Skipped(e))
           lines == SelectSeq(logs, LAMBDA l : l.level # "info")
       IN /\ Len(app) = Len(kept)
          /\ \A k \in 1..Len(kept) :
               /\ k <= Len(app)
               /\ app[k].method = toLowerCase(kept[k].method.s)
               /\ app[k].route = kept[k].route
               /\ app[k].args[Len(app[k].args)] = kept[k].name
          /\ Len(lines) = Len(Processed) - Len(kept)
====
